---- MODULE Spec2Model ----
(***************************************************************************)
(* toy-docker: the container lifecycle of internal/run.                    *)
(*                                                                         *)
(* Two processes are modelled: the host orchestrator (RunContainer, with   *)
(* ensureBridge, waitForChildNetns and configurePorts) and the container   *)
(* process it spawns (unshare, then Init with waitForVeth).  main          *)
(* dispatches either "run" (RunContainer) or "init" (Init called directly  *)
(* with whatever environment the caller has).  The kernel and filesystem   *)
(* objects both processes act on are the record k.  Every external command *)
(* may fail; where the kernel decides the outcome (a device that already   *)
(* exists, an interface that is not in the namespace) the model says so.   *)
(*                                                                         *)
(* Strings that the code parses (VOLUMES, the -p option) are tuples of      *)
(* one-character strings, split as strings.Split splits them.              *)
(*                                                                         *)
(* Six specifications share the module.  Spec follows one invocation       *)
(* after another, each with its container process; Handshake is Spec for   *)
(* one choice of options, with the fairness of the two processes' own      *)
(* steps.  BridgeRace follows                                              *)
(* several invocations that run at the same time through ensureBridge, the *)
(* first thing RunContainer calls.  Concurrent follows several invocations *)
(* that run at the same time through what comes after ensureBridge: the    *)
(* steps that derive or use the identity, the interface names and the      *)
(* address.  Resolver follows writeResolvConf line by line.  ParseRef      *)
(* applies internal/pull's parseRef to image references.  Each leaves the  *)
(* variables of the others as they are.  Of the two versions of Init that  *)
(* internal/run/init.go holds, the later one (lines 86-196) is followed.   *)
(***************************************************************************)
EXTENDS Integers, Sequences, FiniteSets, TLC

\* ------------------------------------------------------------ constants

bridgeName == "toy0"
bridgeCIDR == "10.200.0.1/24"
netRange == "10.200.0.0/24"
gateway == "10.200.0.1"

\* The retry budget of waitForChildNetns and of waitForVeth.
NetnsRetries == 50
VethRetries == 50

\* The exit status of a Go process that ends in an unrecovered panic.
PanicExit == 2

\* The keys Init reads from its environment and cannot work without.
Required == {"ROOTFS", "CID", "CIP", "VETH", "CMD"}

\* ---------------------------------------------------------------- bounds

\* Invocations of RunContainer that follow one another on the same host.
MaxRuns == 2
\* Required keys that may be absent when Init is called directly.
MaxMissing == 1
\* The process ids 1..MaxPid are tried for an invocation that runs alone.
MaxPid == 420
\* Invocations that run at the same time.
MaxConc == 2
\* Lines of the host's resolv.conf.
MaxLines == 3
\* The process id of the first invocation; each later one has the next id.
FirstPid == 27
\* The longest image reference given to parseRef, in characters.
MaxRefLen == 5

\* The VOLUMES strings tried: empty, one and two mappings, an empty segment,
\* a trailing separator, a segment without ':' (first, and after a good one)
\* and a segment of three fields.
VolumeInputs ==
  { <<>>,
    <<"a", ":", "b">>,
    <<"a", ":", "b", ";", "c", ":", "d">>,
    <<"a", ":", "b", ";", ";", "c", ":", "d">>,
    <<"a", ":", "b", ";">>,
    <<"c">>,
    <<"a", ":", "b", ";", "c">>,
    <<"a", ":", "b", ":", "c">> }

\* The -p strings tried: empty, one and two mappings (one repeated), an
\* empty segment, a segment without ':' (alone, and after a good one) and a
\* segment of three fields.
PortInputs ==
  { <<>>,
    <<"8", ":", "9">>,
    <<"8", ":", "9", ";", "8", ":", "9">>,
    <<"8", ":", "9", ";", ";", "7", ":", "6">>,
    <<"8">>,
    <<"8", ":", "9", ";", "7">>,
    <<"8", ":", "9", ":", "7">> }

\* The option pairs a run is tried with: every VOLUMES string with one port
\* mapping, and every -p string without volumes.
RunInputs ==
  {<<v, <<"8", ":", "9">>>> : v \in VolumeInputs} \cup {<<<<>>, p>> : p \in PortInputs}

\* The exit statuses the user command may end with.
CmdStatuses == {0, 1, 3}

\* --------------------------------------------------------------- strings

RECURSIVE SplitAcc(_, _, _, _)
SplitAcc(s, sep, cur, acc) ==
  IF s = <<>> THEN Append(acc, cur)
  ELSE IF Head(s) = sep THEN SplitAcc(Tail(s), sep, <<>>, Append(acc, cur))
  ELSE SplitAcc(Tail(s), sep, Append(cur, Head(s)), acc)

\* strings.Split(s, sep) for a one-character separator: always at least one
\* field, the empty string giving one empty field.
Split(s, sep) == SplitAcc(s, sep, <<>>, <<>>)

\* fmt's %d of a natural number: its decimal digits, most significant first.
RECURSIVE Digits(_)
Digits(n) ==
  LET d == <<"0", "1", "2", "3", "4", "5", "6", "7", "8", "9">>[(n % 10) + 1]
  IN  IF n < 10 THEN <<d>> ELSE Append(Digits(n \div 10), d)

\* ------------------------------------------------------------ identities

\* Mutant of Cid: the identity is the process id alone.
Cid_pidOnly(pid) == Digits(pid)

\* cid := fmt.Sprintf("%d-%d", os.Getpid(), os.Getpid()+12345)
Cid(pid) == Digits(pid) \o <<"-">> \o Digits(pid + 12345)

\* Mutant of AllocateIP: the pool has 256 addresses.
AllocateIP_mod256(pid) == <<10, 200, 0, 10 + (pid % 256)>>

\* ip := fmt.Sprintf("10.200.0.%d", 10+os.Getpid()%200): the address is kept
\* as its four octets.
AllocateIP(pid) == <<10, 200, 0, 10 + (pid % 200)>>

\* cid[:6]: the slice expression panics when cid has fewer than 6 characters.
CanSlice6(cid) == Len(cid) >= 6
Slice6(cid) == SubSeq(cid, 1, 6)

\* vethH := "vethh" + cid[:6] and vethC := "vethc" + cid[:6]
VethH(cid) == <<"v", "e", "t", "h", "h">> \o Slice6(cid)
VethC(cid) == <<"v", "e", "t", "h", "c">> \o Slice6(cid)

\* An interface address with its prefix length, and no address.
Cidr(ip, len) == [addr |-> ip, prefix |-> len]
NoAddr == [addr |-> <<>>, prefix |-> 0]

\* ------------------------------------------------------------- variables

VARIABLES
  mode,       \* os.Args[1]: "run" or "init"
  vols,       \* the -v option / the VOLUMES value
  ports,      \* the -p option
  envKeys,    \* the required keys present in Init's environment
  k,          \* kernel and filesystem state
  prev,       \* the logs and results of the earlier invocations on this host
  pc,         \* host: position in RunContainer
  polls,      \* host: reads of the child's namespace link made by waitForChildNetns
  pollObs,    \* host: what the last of them observed
  hostLog,    \* host: the operations issued, each with its outcome
  result,     \* host: what RunContainer returned
  portsLeft,  \* host: the segments configurePorts has still to visit
  child,      \* container process: "none", "spawned", "unshared", "init", "exited"
  ipc,        \* container process: position in Init
  volsLeft,   \* container process: the segments of VOLUMES still to visit
  attempts,   \* container process: rename attempts made by waitForVeth
  initLog,    \* container process: the operations issued, each with its outcome
  cmdState,   \* the user command: "none", "running", "exited"
  cmdStatus,  \* the user command's exit status
  exitCode,   \* the container process's exit status
  procs,      \* concurrent invocations: one record for each
  links,      \* concurrent invocations: the interface names in the host namespace
  chain,      \* concurrent invocations: the rules of the nat PREROUTING chain
  rc,         \* writeResolvConf: its files, its locals and what it returned
  racers,     \* invocations racing in ensureBridge: one record for each
  bridge,     \* invocations racing in ensureBridge: the host's bridge and rules
  pref        \* parseRef: the reference given and what was returned

inputs == <<mode, vols, ports, envKeys>>
hostVars == <<pc, polls, pollObs, hostLog, result, portsLeft>>
childVars == <<child, ipc, volsLeft, attempts, initLog, cmdState, cmdStatus, exitCode>>
concVars == <<procs, links, chain>>
resolvVars == <<rc>>
raceVars == <<racers, bridge>>
refVars == <<pref>>
mainVars == <<inputs, k, prev, hostVars, childVars>>
vars == <<inputs, k, prev, hostVars, childVars, concVars, resolvVars, raceVars, refVars>>

\* What a step of one specification leaves alone of the others.
offMain == <<concVars, resolvVars, raceVars, refVars>>
offConc == <<mainVars, resolvVars, raceVars, refVars>>
offResolv == <<mainVars, concVars, raceVars, refVars>>
offRace == <<mainVars, concVars, resolvVars, refVars>>
offRef == <<mainVars, concVars, resolvVars, raceVars>>

\* The three rules ensureBridge appends.
MasqRule == [chain |-> "POSTROUTING", target |-> "MASQUERADE", dport |-> <<>>, to |-> <<>>]
FwdInRule == [chain |-> "FORWARD -i", target |-> "ACCEPT", dport |-> <<>>, to |-> <<>>]
FwdOutRule == [chain |-> "FORWARD -o", target |-> "ACCEPT", dport |-> <<>>, to |-> <<>>]

\* A host without the bridge, and no container.
NoBridge ==
  [brExists |-> FALSE, brAddr |-> "none", brUp |-> FALSE, ipForward |-> FALSE,
   rules |-> <<>>, vethH |-> "none", vethC |-> "none", cName |-> "none",
   fs |-> {}, mounts |-> <<>>, lo |-> FALSE, ethAddr |-> NoAddr, ethUp |-> FALSE,
   route |-> "none", hostname |-> <<"h", "o", "s", "t">>, root |-> "host",
   oldRoot |-> FALSE]

\* What RunContainer returned: nothing yet, nil, or an error (with the child's
\* exit status when the error is the one c.Wait reports).
NoResult == [kind |-> "none", err |-> "", status |-> 0]
Nil == [kind |-> "nil", err |-> "", status |-> 0]
Err(e) == [kind |-> "error", err |-> e, status |-> 0]
ExitError(st) == [kind |-> "error", err |-> "exit status", status |-> st]

\* os.Getpid() in RunContainer: invocations that follow one another are
\* processes with different ids.
Getpid == FirstPid + Len(prev)

\* c.Env: the values RunContainer gives the container process for CID, CIP
\* and VETH (a caller of `init` is taken to give values of the same form).
Environ ==
  [CID |-> Cid(Getpid), CIP |-> AllocateIP(Getpid), VETH |-> VethC(Cid(Getpid))]

\* os.Getenv(key): the empty string for a key that is absent.
Getenv(key) == IF key \in envKeys THEN Environ[key] ELSE <<>>

HostStart ==
  /\ pc = "ensureBridge" /\ polls = 0 /\ pollObs = "none" /\ hostLog = <<>>
  /\ result = NoResult /\ portsLeft = <<>>

ChildNone ==
  /\ child = "none" /\ ipc = "none" /\ volsLeft = <<>> /\ attempts = 0
  /\ initLog = <<>> /\ cmdState = "none" /\ cmdStatus = 0 /\ exitCode = 0

\* main: "run" calls RunContainer with the options; "init" calls Init in the
\* caller's own namespaces with the caller's environment, where an interface
\* of the expected name may or may not be present.
\* No concurrent invocations are followed, and writeResolvConf is not
\* followed line by line.
ConcNone == procs = <<>> /\ links = {} /\ chain = <<>>
ResolvNone == rc = [pc |-> "none"]
RaceNone == racers = <<>> /\ bridge = [pc |-> "none"]
RefNone == pref = [pc |-> "none"]

Init ==
  /\ prev = <<>>
  /\ ConcNone /\ ResolvNone /\ RaceNone /\ RefNone
  /\ \/ /\ mode = "run"
        /\ \E io \in RunInputs : vols = io[1] /\ ports = io[2]
        /\ envKeys = {}
        /\ k = NoBridge
        /\ HostStart /\ ChildNone
     \/ /\ mode = "init"
        /\ vols \in VolumeInputs /\ ports = <<>>
        /\ envKeys \in {e \in SUBSET Required : Cardinality(Required \ e) <= MaxMissing}
        /\ k \in {[NoBridge EXCEPT !.vethC = v, !.cName = IF v = "none" THEN "none" ELSE "vethc"]
                    : v \in {"none", "child"}}
        /\ pc = "init role" /\ polls = 0 /\ pollObs = "none" /\ hostLog = <<>>
        /\ result = NoResult /\ portsLeft = <<>>
        /\ child = "init" /\ ipc = "mount namespace" /\ volsLeft = <<>> /\ attempts = 0
        /\ initLog = <<>> /\ cmdState = "none" /\ cmdStatus = 0 /\ exitCode = 0

\* ------------------------------------------------------------------ exec

\* What running the program `name` with `args` can give, as CombinedOutput
\* reports it: whether it failed, and whether its output contains the
\* bridge's name.  `ip link show toy0` succeeds and prints the device when it
\* exists, and fails naming it when it does not.  A program called `link` is
\* either not installed (an error, no output) or coreutils' link(1), which
\* takes two file names: it fails with a message naming them, or succeeds in
\* silence.
ExecOutcomes(name, args) ==
  IF name = "ip" /\ args = <<"link", "show", bridgeName>>
  THEN {[err |-> ~k.brExists, hasName |-> TRUE]}
  ELSE IF name = "link"
  THEN {[err |-> TRUE, hasName |-> FALSE], [err |-> TRUE, hasName |-> TRUE],
        [err |-> FALSE, hasName |-> FALSE]}
  ELSE {[err |-> e, hasName |-> h] : e \in BOOLEAN, h \in BOOLEAN}

\* exec.RunOut(desc, name, args...): the first argument is only printed, the
\* second is the program that is run.
RunOut(desc, name, args) == ExecOutcomes(name, args)

\* A host step that returns its error to RunContainer's caller: the operation
\* `op` is issued; it may fail, and succeeds only when canOk; on success the
\* kernel state becomes knew.
HostStep(from, to, op, canOk, knew) ==
  /\ mode = "run" /\ pc = from
  /\ \E ok \in BOOLEAN :
       /\ ok => canOk
       /\ hostLog' = Append(hostLog, [op |-> op, ok |-> ok])
       /\ pc' = IF ok THEN to ELSE "failed"
       /\ k' = IF ok THEN knew ELSE k
       /\ result' = IF ok THEN result ELSE Err(op)
  /\ UNCHANGED <<inputs, offMain, prev, polls, pollObs, portsLeft, childVars>>

\* exec.RunOrErr(desc, name, args...) followed by the caller's `return err`.
RunOrErr(from, to, desc, canOk, knew) == HostStep(from, to, desc, canOk, knew)

\* ---------------------------------------------------------- ensureBridge

\* The existence check: RunOut is called with "ip" in the place of desc.  The
\* bridge counts as found when the program ended without error and its
\* output contains the bridge's name (the log's ok is that verdict).
ensureBridge_check ==
  /\ mode = "run" /\ pc = "ensureBridge"
  /\ \E r \in RunOut("ip", "link", <<"show", bridgeName>>) :
       LET found == ~r.err /\ r.hasName IN
       /\ hostLog' = Append(hostLog, [op |-> "check bridge", ok |-> found])
       /\ pc' = IF found THEN "prepare containers dir" ELSE "add bridge"
  /\ UNCHANGED <<inputs, offMain, k, prev, polls, pollObs, result, portsLeft, childVars>>

ensureBridge_add ==
  RunOrErr("add bridge", "assign bridge ip", "add bridge",
           ~k.brExists, [k EXCEPT !.brExists = TRUE])

ensureBridge_addr ==
  RunOrErr("assign bridge ip", "bring bridge up", "assign bridge ip",
           k.brExists /\ k.brAddr = "none", [k EXCEPT !.brAddr = bridgeCIDR])

ensureBridge_up ==
  RunOrErr("bring bridge up", "enable ipv4 forwarding", "bring bridge up",
           k.brExists, [k EXCEPT !.brUp = TRUE])

\* Mutant of ensureBridge_sysctl: the error of sysctl is dropped.
ensureBridge_sysctl_ignored ==
  /\ mode = "run" /\ pc = "enable ipv4 forwarding"
  /\ \E ok \in BOOLEAN :
       /\ hostLog' = Append(hostLog, [op |-> "[net] enable ipv4 forwarding", ok |-> ok])
       /\ k' = IF ok THEN [k EXCEPT !.ipForward = TRUE] ELSE k
  /\ pc' = "configure nat"
  /\ UNCHANGED <<inputs, offMain, prev, polls, pollObs, result, portsLeft, childVars>>

ensureBridge_sysctl ==
  RunOrErr("enable ipv4 forwarding", "configure nat", "[net] enable ipv4 forwarding",
           TRUE, [k EXCEPT !.ipForward = TRUE])

ensureBridge_nat ==
  RunOrErr("configure nat", "allow forward from bridge", "[net] configure nat",
           TRUE, [k EXCEPT !.rules = Append(@, MasqRule)])

ensureBridge_fwdIn ==
  RunOrErr("allow forward from bridge", "allow established to bridge",
           "[net] allow forward from bridge",
           TRUE, [k EXCEPT !.rules = Append(@, FwdInRule)])

ensureBridge_fwdOut ==
  RunOrErr("allow established to bridge", "prepare containers dir",
           "[net] allow established to bridge",
           TRUE, [k EXCEPT !.rules = Append(@, FwdOutRule)])

ensureBridge ==
  \/ ensureBridge_check \/ ensureBridge_add \/ ensureBridge_addr \/ ensureBridge_up
  \/ ensureBridge_sysctl \/ ensureBridge_nat \/ ensureBridge_fwdIn \/ ensureBridge_fwdOut

\* ---------------------------------------------------------- RunContainer

RunContainer_contDir ==
  HostStep("prepare containers dir", "create rootfs", "prepare containers dir",
           TRUE, [k EXCEPT !.fs = @ \cup {"containers dir"}])

RunContainer_rootfs ==
  HostStep("create rootfs", "extract base layer", "create rootfs",
           TRUE, [k EXCEPT !.fs = @ \cup {"rootfs"}])

RunContainer_extract ==
  RunOrErr("extract base layer", "writeResolvConf", "[fs] extract base layer",
           "rootfs" \in k.fs, [k EXCEPT !.fs = @ \cup {"layer"}])

RunContainer_resolv ==
  HostStep("writeResolvConf", "create veth", "writeResolvConf",
           "rootfs" \in k.fs, [k EXCEPT !.fs = @ \cup {"resolv.conf"}])

\* Mutant of RunContainer_veth: the host end is brought up before it is
\* attached to the bridge.
RunContainer_veth_thenUp ==
  RunOrErr("create veth", "bring veth up", "[net] create veth",
           k.vethH = "none" /\ k.vethC = "none",
           [k EXCEPT !.vethH = "created", !.vethC = "host", !.cName = "vethc"])

\* ip link add fails when a device of either name exists.
RunContainer_veth ==
  RunOrErr("create veth", "attach veth to bridge", "[net] create veth",
           k.vethH = "none" /\ k.vethC = "none",
           [k EXCEPT !.vethH = "created", !.vethC = "host", !.cName = "vethc"])

\* Mutant of RunContainer_attach: when the attach fails the veth pair is
\* deleted again before the error is returned.
RunContainer_attach_rollback ==
  /\ mode = "run" /\ pc = "attach veth to bridge"
  /\ \E ok \in BOOLEAN :
       /\ ok => k.vethH = "created" /\ k.brExists
       /\ hostLog' = Append(hostLog, [op |-> "[net] attach veth to bridge", ok |-> ok])
       /\ pc' = IF ok THEN "bring veth up" ELSE "failed"
       /\ k' = IF ok THEN [k EXCEPT !.vethH = "attached"]
               ELSE [k EXCEPT !.vethH = "none", !.vethC = "none", !.cName = "none"]
       /\ result' = IF ok THEN result ELSE Err("[net] attach veth to bridge")
  /\ UNCHANGED <<inputs, offMain, prev, polls, pollObs, portsLeft, childVars>>

RunContainer_attach ==
  RunOrErr("attach veth to bridge", "bring veth up", "[net] attach veth to bridge",
           k.vethH = "created" /\ k.brExists, [k EXCEPT !.vethH = "attached"])

RunContainer_vethUp ==
  RunOrErr("bring veth up", "create ns file", "[net] bring veth up",
           k.vethH = "attached", [k EXCEPT !.vethH = "up"])

RunContainer_nsfile ==
  HostStep("create ns file", "locate self executable", "create ns file",
           TRUE, [k EXCEPT !.fs = @ \cup {"nsfile"}])

RunContainer_self ==
  HostStep("locate self executable", "Start", "locate self executable", TRUE, k)

\* Mutant of RunContainer_start: the error of c.Start is dropped.
RunContainer_start_goesOn ==
  /\ mode = "run" /\ pc = "Start"
  /\ \E ok \in BOOLEAN :
       /\ hostLog' = Append(hostLog, [op |-> "container init", ok |-> ok])
       /\ child' = IF ok THEN "spawned" ELSE child
       /\ envKeys' = IF ok THEN Required ELSE envKeys
  /\ pc' = "waitForChildNetns"
  /\ UNCHANGED <<mode, vols, ports, offMain, k, prev, polls, pollObs, result, portsLeft,
                 ipc, volsLeft, attempts, initLog, cmdState, cmdStatus, exitCode>>

\* c.Start(): the unshare process is created with the six keys in its
\* environment, and RunContainer goes on without waiting for it.
RunContainer_start ==
  /\ mode = "run" /\ pc = "Start"
  /\ \E ok \in BOOLEAN :
       /\ hostLog' = Append(hostLog, [op |-> "container init", ok |-> ok])
       /\ pc' = IF ok THEN "waitForChildNetns" ELSE "failed"
       /\ result' = IF ok THEN result ELSE Err("container init failed")
       /\ child' = IF ok THEN "spawned" ELSE child
       /\ envKeys' = IF ok THEN Required ELSE envKeys
  /\ UNCHANGED <<mode, vols, ports, offMain, k, prev, polls, pollObs, portsLeft,
                 ipc, volsLeft, attempts, initLog, cmdState, cmdStatus, exitCode>>

\* Whether the container process exists (a zombie has no namespace links).
ChildAlive == child \in {"spawned", "unshared", "init"}

\* os.Readlink("/proc/<pid>/ns/net") compared with the host's own link: the
\* read fails once the process is gone; a process that has called unshare(2)
\* shows another identity than the host's.
ReadChildNetns ==
  IF ~ChildAlive THEN "err"
  ELSE IF child = "spawned" THEN "same"
  ELSE "diff"

\* waitForChildNetns: the host's own link is read once.
waitForChildNetns_readHost ==
  /\ mode = "run" /\ pc = "waitForChildNetns"
  /\ \E ok \in BOOLEAN :
       /\ pc' = IF ok THEN "poll" ELSE "failed"
       /\ hostLog' = IF ok THEN hostLog
                     ELSE Append(hostLog, [op |-> "waitForChildNetns", ok |-> FALSE])
       /\ result' = IF ok THEN result ELSE Err("read host netns")
  /\ UNCHANGED <<inputs, offMain, k, prev, polls, pollObs, portsLeft, childVars>>

\* Mutant of waitForChildNetns_poll: the read's error is not looked at, so a
\* failed read (an empty link) counts as a difference.
waitForChildNetns_poll_noErrCheck ==
  /\ mode = "run" /\ pc = "poll" /\ polls < NetnsRetries
  /\ LET r == ReadChildNetns
         differs == r \in {"diff", "err"} IN
       /\ polls' = IF differs THEN 0 ELSE polls + 1
       /\ pollObs' = r
       /\ pc' = IF differs THEN "move veth" ELSE "poll"
       /\ hostLog' = IF differs
                     THEN Append(hostLog, [op |-> "waitForChildNetns", ok |-> TRUE])
                     ELSE hostLog
  /\ UNCHANGED <<inputs, offMain, k, prev, result, portsLeft, childVars>>

\* One turn of the loop: return nil when the read succeeds and differs (the
\* counter i is then gone), otherwise sleep and go round.
waitForChildNetns_poll ==
  /\ mode = "run" /\ pc = "poll" /\ polls < NetnsRetries
  /\ LET r == ReadChildNetns IN
       /\ polls' = IF r = "diff" THEN 0 ELSE polls + 1
       /\ pollObs' = r
       /\ pc' = IF r = "diff" THEN "move veth" ELSE "poll"
       /\ hostLog' = IF r = "diff"
                     THEN Append(hostLog, [op |-> "waitForChildNetns", ok |-> TRUE])
                     ELSE hostLog
  /\ UNCHANGED <<inputs, offMain, k, prev, result, portsLeft, childVars>>

\* Mutant of waitForChildNetns_timeout: RunContainer drops the error and goes
\* on to move the veth.
waitForChildNetns_timeout_ignored ==
  /\ mode = "run" /\ pc = "poll" /\ polls >= NetnsRetries
  /\ pc' = "move veth"
  /\ hostLog' = Append(hostLog, [op |-> "waitForChildNetns", ok |-> FALSE])
  /\ UNCHANGED <<inputs, offMain, k, prev, polls, pollObs, result, portsLeft, childVars>>

\* The loop ran out.
waitForChildNetns_timeout ==
  /\ mode = "run" /\ pc = "poll" /\ polls >= NetnsRetries
  /\ pc' = "failed"
  /\ hostLog' = Append(hostLog, [op |-> "waitForChildNetns", ok |-> FALSE])
  /\ result' = Err("timed out waiting for child netns")
  /\ UNCHANGED <<inputs, offMain, k, prev, polls, pollObs, portsLeft, childVars>>

waitForChildNetns ==
  \/ waitForChildNetns_readHost \/ waitForChildNetns_poll \/ waitForChildNetns_timeout

\* ip link set <vethC> netns <pid>: needs the device in the host namespace
\* and the process alive.
\* Mutant of RunContainer_move: the host-side endpoint is the one moved.
RunContainer_move_hostEnd ==
  RunOrErr("move veth", "configurePorts", "[net] move veth to container",
           k.vethH = "up" /\ ChildAlive, [k EXCEPT !.vethH = "child"])

RunContainer_move ==
  RunOrErr("move veth", "configurePorts", "[net] move veth to container",
           k.vethC = "host" /\ ChildAlive, [k EXCEPT !.vethC = "child"])

\* The DNAT rule of one mapping: tcp/hp to ip:cp.
DnatRule(ip, hp, cp) ==
  [chain |-> "PREROUTING", target |-> "DNAT", dport |-> hp, to |-> <<ip, cp>>]

\* configurePorts: nothing to do for the empty string, else split on ';'.
configurePorts_enter ==
  /\ mode = "run" /\ pc = "configurePorts"
  /\ IF ports = <<>>
     THEN pc' = "Wait" /\ portsLeft' = portsLeft
     ELSE pc' = "ports loop" /\ portsLeft' = Split(ports, ";")
  /\ UNCHANGED <<inputs, offMain, k, prev, polls, pollObs, hostLog, result, childVars>>

\* Mutant of configurePorts_segment: a mapping whose rule is already in the
\* chain is not appended again.
configurePorts_segment_dedup ==
  /\ mode = "run" /\ pc = "ports loop" /\ portsLeft # <<>>
  /\ LET p == Head(portsLeft)
         parts == Split(p, ":")
     IN  IF p = <<>>
         THEN /\ portsLeft' = Tail(portsLeft)
              /\ UNCHANGED <<pc, k, hostLog, result>>
         ELSE IF Len(parts) # 2
         THEN /\ pc' = "failed"
              /\ result' = Err("invalid port mapping")
              /\ hostLog' = Append(hostLog, [op |-> "invalid port mapping", ok |-> FALSE])
              /\ UNCHANGED <<k, portsLeft>>
         ELSE IF \E i \in 1..Len(k.rules) :
                   k.rules[i] = DnatRule(AllocateIP(Getpid), parts[1], parts[2])
         THEN /\ portsLeft' = Tail(portsLeft)
              /\ UNCHANGED <<pc, k, hostLog, result>>
         ELSE \E ok \in BOOLEAN :
              /\ hostLog' = Append(hostLog, [op |-> "[net] add port forward", ok |-> ok])
              /\ pc' = IF ok THEN pc ELSE "failed"
              /\ k' = IF ok
                      THEN [k EXCEPT !.rules =
                              Append(@, DnatRule(AllocateIP(Getpid), parts[1], parts[2]))]
                      ELSE k
              /\ result' = IF ok THEN result ELSE Err("[net] add port forward")
              /\ portsLeft' = IF ok THEN Tail(portsLeft) ELSE portsLeft
  /\ UNCHANGED <<inputs, offMain, prev, polls, pollObs, childVars>>

\* Mutant of configurePorts_segment: a segment that does not have two fields
\* is passed over like an empty one.
configurePorts_segment_skipBad ==
  /\ mode = "run" /\ pc = "ports loop" /\ portsLeft # <<>>
  /\ LET p == Head(portsLeft)
         parts == Split(p, ":")
     IN  IF p = <<>> \/ Len(parts) # 2
         THEN /\ portsLeft' = Tail(portsLeft)
              /\ UNCHANGED <<pc, k, hostLog, result>>
         ELSE \E ok \in BOOLEAN :
              /\ hostLog' = Append(hostLog, [op |-> "[net] add port forward", ok |-> ok])
              /\ pc' = IF ok THEN pc ELSE "failed"
              /\ k' = IF ok
                      THEN [k EXCEPT !.rules =
                              Append(@, DnatRule(AllocateIP(Getpid), parts[1], parts[2]))]
                      ELSE k
              /\ result' = IF ok THEN result ELSE Err("[net] add port forward")
              /\ portsLeft' = IF ok THEN Tail(portsLeft) ELSE portsLeft
  /\ UNCHANGED <<inputs, offMain, prev, polls, pollObs, childVars>>

\* One segment: skipped when empty, an error unless it has exactly two
\* fields, else one rule appended.
configurePorts_segment ==
  /\ mode = "run" /\ pc = "ports loop" /\ portsLeft # <<>>
  /\ LET p == Head(portsLeft)
         parts == Split(p, ":")
     IN  IF p = <<>>
         THEN /\ portsLeft' = Tail(portsLeft)
              /\ UNCHANGED <<pc, k, hostLog, result>>
         ELSE IF Len(parts) # 2
         THEN /\ pc' = "failed"
              /\ result' = Err("invalid port mapping")
              /\ hostLog' = Append(hostLog, [op |-> "invalid port mapping", ok |-> FALSE])
              /\ UNCHANGED <<k, portsLeft>>
         ELSE \E ok \in BOOLEAN :
              /\ hostLog' = Append(hostLog, [op |-> "[net] add port forward", ok |-> ok])
              /\ pc' = IF ok THEN pc ELSE "failed"
              /\ k' = IF ok
                      THEN [k EXCEPT !.rules =
                              Append(@, DnatRule(AllocateIP(Getpid), parts[1], parts[2]))]
                      ELSE k
              /\ result' = IF ok THEN result ELSE Err("[net] add port forward")
              /\ portsLeft' = IF ok THEN Tail(portsLeft) ELSE portsLeft
  /\ UNCHANGED <<inputs, offMain, prev, polls, pollObs, childVars>>

configurePorts_return ==
  /\ mode = "run" /\ pc = "ports loop" /\ portsLeft = <<>>
  /\ pc' = "Wait"
  /\ UNCHANGED <<inputs, offMain, k, prev, polls, pollObs, hostLog, result, portsLeft, childVars>>

configurePorts ==
  \/ configurePorts_enter \/ configurePorts_segment \/ configurePorts_return

\* return c.Wait(): blocks until the container process has exited; nil for
\* status 0, else the exit error.
RunContainer_wait ==
  /\ mode = "run" /\ pc = "Wait" /\ child = "exited"
  /\ hostLog' = Append(hostLog, [op |-> "Wait", ok |-> exitCode = 0])
  /\ pc' = IF exitCode = 0 THEN "done" ELSE "failed"
  /\ result' = IF exitCode = 0 THEN Nil ELSE ExitError(exitCode)
  /\ UNCHANGED <<inputs, offMain, k, prev, polls, pollObs, portsLeft, childVars>>

RunContainer ==
  \/ ensureBridge
  \/ RunContainer_contDir \/ RunContainer_rootfs \/ RunContainer_extract
  \/ RunContainer_resolv \/ RunContainer_veth \/ RunContainer_attach
  \/ RunContainer_vethUp \/ RunContainer_nsfile \/ RunContainer_self
  \/ RunContainer_start
  \/ waitForChildNetns
  \/ RunContainer_move
  \/ configurePorts
  \/ RunContainer_wait

\* The bridge, the forwarding switch and the firewall rules outlive a run;
\* the next invocation is another process with another identity, so its veth
\* pair, its directories and its container are new.
NextHost(kk) ==
  [NoBridge EXCEPT !.brExists = kk.brExists, !.brAddr = kk.brAddr, !.brUp = kk.brUp,
                   !.ipForward = kk.ipForward, !.rules = kk.rules]

\* main is run again with the same options once the earlier invocation and
\* its container process have ended.
Rerun ==
  /\ mode = "run" /\ pc \in {"done", "failed"} /\ child \in {"none", "exited"}
  /\ Len(prev) + 1 < MaxRuns
  /\ prev' = Append(prev, [log |-> hostLog, result |-> result])
  /\ k' = NextHost(k)
  /\ pc' = "ensureBridge" /\ polls' = 0 /\ pollObs' = "none" /\ hostLog' = <<>>
  /\ result' = NoResult /\ portsLeft' = <<>>
  /\ envKeys' = {}
  /\ child' = "none" /\ ipc' = "none" /\ volsLeft' = <<>> /\ attempts' = 0
  /\ initLog' = <<>> /\ cmdState' = "none" /\ cmdStatus' = 0 /\ exitCode' = 0
  /\ UNCHANGED <<mode, vols, ports, offMain>>

\* ------------------------------------------------- the container process

\* unshare(1): it enters the new namespaces with unshare(2), or fails and
\* exits.
unshare_ns ==
  /\ child = "spawned"
  /\ \E ok \in BOOLEAN :
       /\ child' = IF ok THEN "unshared" ELSE "exited"
       /\ exitCode' = IF ok THEN exitCode ELSE 1
  /\ UNCHANGED <<inputs, offMain, k, prev, hostVars, ipc, volsLeft, attempts, initLog,
                 cmdState, cmdStatus>>

\* unshare(1), --fork: it forks and runs `self init` as the first process of
\* the new pid namespace, or fails and exits.
unshare_exec ==
  /\ child = "unshared"
  /\ \E ok \in BOOLEAN :
       /\ child' = IF ok THEN "init" ELSE "exited"
       /\ ipc' = IF ok THEN "mount namespace" ELSE ipc
       /\ exitCode' = IF ok THEN exitCode ELSE 1
  /\ UNCHANGED <<inputs, offMain, k, prev, hostVars, volsLeft, attempts, initLog,
                 cmdState, cmdStatus>>

\* An unrecovered panic ends the process.
Panic ==
  /\ child' = "exited" /\ ipc' = "panic" /\ exitCode' = PanicExit

\* A step of Init that panics on failure: the operation `op` is issued; it
\* may fail, and succeeds only when canOk; on success the kernel state
\* becomes knew.
InitStep(from, to, op, canOk, knew) ==
  /\ child = "init" /\ ipc = from
  /\ \E ok \in BOOLEAN :
       /\ ok => canOk
       /\ initLog' = Append(initLog, [op |-> op, ok |-> ok])
       /\ k' = IF ok THEN knew ELSE k
       /\ IF ok THEN ipc' = to /\ UNCHANGED <<child, exitCode>> ELSE Panic
  /\ UNCHANGED <<inputs, offMain, prev, hostVars, volsLeft, attempts, cmdState, cmdStatus>>

\* exec.MustRun(desc, name, args...): the program is run to its end and a
\* failure panics.
MustRun(from, to, desc, canOk, knew) == InitStep(from, to, desc, canOk, knew)

Init_mountNs ==
  MustRun("mount namespace", "mount private", "[fs] mount namespace",
          TRUE, [k EXCEPT !.mounts = Append(@, <<"netns", "nsfile">>)])

Init_private ==
  MustRun("mount private", "mount rootfs", "[fs] mount private",
          TRUE, [k EXCEPT !.mounts = Append(@, <<"rprivate", "/">>)])

Init_rootfs ==
  MustRun("mount rootfs", "mount dev", "[fs] mount rootfs(hack)",
          "ROOTFS" \in envKeys, [k EXCEPT !.mounts = Append(@, <<"rootfs", "rootfs">>)])

Init_dev ==
  MustRun("mount dev", "split volumes", "[fs] mount dev",
          TRUE, [k EXCEPT !.mounts = Append(@, <<"/dev", "rootfs/dev">>)])

\* strings.Split(vols, ";")
Init_volumes ==
  /\ child = "init" /\ ipc = "split volumes"
  /\ volsLeft' = Split(vols, ";")
  /\ ipc' = "volumes"
  /\ UNCHANGED <<inputs, offMain, k, prev, hostVars, child, attempts, initLog,
                 cmdState, cmdStatus, exitCode>>

\* One segment of VOLUMES: skipped when empty; parts[1] of a segment without
\* ':' is an index out of range, which panics; else the directory is made
\* (its error is dropped) and the bind mount is run.
Init_volume ==
  /\ child = "init" /\ ipc = "volumes" /\ volsLeft # <<>>
  /\ LET v == Head(volsLeft)
         parts == Split(v, ":")
     IN  IF v = <<>>
         THEN /\ volsLeft' = Tail(volsLeft)
              /\ UNCHANGED <<k, child, ipc, initLog, exitCode>>
         ELSE IF Len(parts) < 2
         THEN /\ Panic
              /\ initLog' = Append(initLog, [op |-> "index out of range", ok |-> FALSE])
              /\ UNCHANGED <<k, volsLeft>>
         ELSE \E mk \in BOOLEAN, ok \in BOOLEAN :
              /\ initLog' = initLog \o <<[op |-> "mkdir volume", ok |-> mk],
                                         [op |-> "[fs] mount volume", ok |-> ok]>>
              /\ k' = IF ok THEN [k EXCEPT !.mounts = Append(@, <<parts[1], parts[2]>>)]
                      ELSE k
              /\ IF ok THEN volsLeft' = Tail(volsLeft) /\ UNCHANGED <<child, ipc, exitCode>>
                       ELSE Panic /\ UNCHANGED volsLeft
  /\ UNCHANGED <<inputs, offMain, prev, hostVars, attempts, cmdState, cmdStatus>>

Init_volumesDone ==
  /\ child = "init" /\ ipc = "volumes" /\ volsLeft = <<>>
  /\ ipc' = "set loopback up"
  /\ UNCHANGED <<inputs, offMain, k, prev, hostVars, child, volsLeft, attempts, initLog,
                 cmdState, cmdStatus, exitCode>>

\* Mutant of Init_lo: Init goes on to the address without waiting for the
\* veth.
Init_lo_noWait ==
  MustRun("set loopback up", "assign IP", "[net] set loopback up",
          TRUE, [k EXCEPT !.lo = TRUE])

Init_lo ==
  MustRun("set loopback up", "waitForVeth", "[net] set loopback up",
          TRUE, [k EXCEPT !.lo = TRUE])

\* ip link set <name> name eth0, run in Init's namespace: it can succeed
\* only when an interface of that name is there.
RenameCanSucceed == "VETH" \in envKeys /\ k.vethC = "child" /\ k.cName = "vethc"

\* Mutant of waitForVeth_attempt: the loop returns after its first turn,
\* whether the rename succeeded or not.
waitForVeth_attempt_once ==
  /\ child = "init" /\ ipc = "waitForVeth" /\ attempts < VethRetries
  /\ \E ok \in BOOLEAN :
       /\ ok => RenameCanSucceed
       /\ k' = IF ok THEN [k EXCEPT !.cName = "eth0"] ELSE k
       /\ initLog' = Append(initLog, [op |-> "waitForVeth", ok |-> ok])
  /\ attempts' = 0 /\ ipc' = "assign IP"
  /\ UNCHANGED <<inputs, offMain, prev, hostVars, child, volsLeft, cmdState, cmdStatus, exitCode>>

\* Mutant of waitForVeth_attempt: the loop has no counter.
waitForVeth_attempt_uncounted ==
  /\ child = "init" /\ ipc = "waitForVeth" /\ attempts < VethRetries
  /\ \E ok \in BOOLEAN :
       /\ ok => RenameCanSucceed
       /\ ipc' = IF ok THEN "assign IP" ELSE ipc
       /\ k' = IF ok THEN [k EXCEPT !.cName = "eth0"] ELSE k
       /\ initLog' = IF ok THEN Append(initLog, [op |-> "waitForVeth", ok |-> TRUE])
                     ELSE initLog
  /\ UNCHANGED <<inputs, offMain, prev, hostVars, child, volsLeft, attempts, cmdState,
                 cmdStatus, exitCode>>

\* waitForVeth, one turn of the loop: return nil when the rename succeeds
\* (the counter i is then gone), otherwise sleep and go round.
waitForVeth_attempt ==
  /\ child = "init" /\ ipc = "waitForVeth" /\ attempts < VethRetries
  /\ \E ok \in BOOLEAN :
       /\ ok => RenameCanSucceed
       /\ attempts' = IF ok THEN 0 ELSE attempts + 1
       /\ ipc' = IF ok THEN "assign IP" ELSE ipc
       /\ k' = IF ok THEN [k EXCEPT !.cName = "eth0"] ELSE k
       /\ initLog' = IF ok THEN Append(initLog, [op |-> "waitForVeth", ok |-> TRUE])
                     ELSE initLog
  /\ UNCHANGED <<inputs, offMain, prev, hostVars, child, volsLeft, cmdState, cmdStatus, exitCode>>

\* Mutant of waitForVeth_timeout: Init drops the error and goes on.
waitForVeth_timeout_ignored ==
  /\ child = "init" /\ ipc = "waitForVeth" /\ attempts >= VethRetries
  /\ initLog' = Append(initLog, [op |-> "waitForVeth", ok |-> FALSE])
  /\ ipc' = "assign IP"
  /\ UNCHANGED <<inputs, offMain, k, prev, hostVars, child, volsLeft, attempts, cmdState,
                 cmdStatus, exitCode>>

\* The loop ran out: waitForVeth returns its error and Init panics with it.
waitForVeth_timeout ==
  /\ child = "init" /\ ipc = "waitForVeth" /\ attempts >= VethRetries
  /\ initLog' = Append(initLog, [op |-> "waitForVeth", ok |-> FALSE])
  /\ Panic
  /\ UNCHANGED <<inputs, offMain, k, prev, hostVars, volsLeft, attempts, cmdState, cmdStatus>>

waitForVeth == waitForVeth_attempt \/ waitForVeth_timeout

Init_addr ==
  MustRun("assign IP", "bring eth0 up", "[net] assign IP",
          "CIP" \in envKeys /\ k.cName = "eth0",
          [k EXCEPT !.ethAddr = Cidr(Getenv("CIP"), 24)])

Init_ethUp ==
  MustRun("bring eth0 up", "set default route", "[net] bring eth0 up",
          k.cName = "eth0", [k EXCEPT !.ethUp = TRUE])

Init_route ==
  MustRun("set default route", "set hostname", "[net] set default route",
          k.ethAddr # NoAddr /\ k.ethUp, [k EXCEPT !.route = gateway])

\* Mutant of Init_hostname: the hostname is the identity alone.
Init_hostname_bare ==
  MustRun("set hostname", "create put_old", "[net] set hostname",
          TRUE, [k EXCEPT !.hostname = Getenv("CID")])

Init_hostname ==
  MustRun("set hostname", "create put_old", "[net] set hostname",
          TRUE, [k EXCEPT !.hostname = <<"t", "o", "y", "-">> \o Getenv("CID")])

\* os.MkdirAll(putOld), panic on error.
Init_putOld ==
  InitStep("create put_old", "pivot_root", "create put_old",
           TRUE, [k EXCEPT !.fs = @ \cup {"old_root"}])

\* exec.RunOrErr("[fs] pivot_root", ...), panic on error.
Init_pivot ==
  InitStep("pivot_root", "chdir", "[fs] pivot_root",
           "ROOTFS" \in envKeys, [k EXCEPT !.root = "rootfs", !.oldRoot = TRUE])

\* os.Chdir("/"), panic on error.
Init_chdir ==
  InitStep("chdir", "mount proc", "chdir to new root", TRUE, k)

\* Mutant of Init_proc: Init goes on without unmounting old_root.
Init_proc_keepOld ==
  MustRun("mount proc", "show IP", "[fs] mount proc",
          TRUE, [k EXCEPT !.mounts = Append(@, <<"proc", "/proc">>)])

Init_proc ==
  MustRun("mount proc", "umount old_root", "[fs] mount proc",
          TRUE, [k EXCEPT !.mounts = Append(@, <<"proc", "/proc">>)])

Init_umount ==
  MustRun("umount old_root", "show IP", "[fs] umount old_root",
          k.oldRoot, [k EXCEPT !.oldRoot = FALSE])

\* exec.RunOut("[net] show IP", "ip", "addr"), panic on error.
Init_showIP ==
  /\ child = "init" /\ ipc = "show IP"
  /\ \E r \in RunOut("[net] show IP", "ip", <<"addr">>) :
       /\ initLog' = Append(initLog, [op |-> "[net] show IP", ok |-> ~r.err])
       /\ IF ~r.err THEN ipc' = "exec cmd" /\ UNCHANGED <<child, exitCode>> ELSE Panic
  /\ UNCHANGED <<inputs, offMain, k, prev, hostVars, volsLeft, attempts, cmdState, cmdStatus>>

\* exec.Run(name, args...) = cmd.Run(): the program is started as a new
\* process, a child of the caller, and the caller waits for it.  Here the
\* program is `/bin/bash -c "exec <cmd>"`: Init stays where it is, blocked,
\* while the user command runs.
Run_start ==
  /\ child = "init" /\ ipc = "exec cmd"
  /\ \E ok \in BOOLEAN :
       /\ initLog' = Append(initLog, [op |-> "[fs] exec cmd", ok |-> ok])
       /\ IF ok THEN /\ ipc' = "exec cmd: wait" /\ cmdState' = "running"
                     /\ UNCHANGED <<child, exitCode>>
                ELSE Panic /\ UNCHANGED cmdState
  /\ UNCHANGED <<inputs, offMain, k, prev, hostVars, volsLeft, attempts, cmdStatus>>

\* The user command ends, with some status.
cmd_exit ==
  /\ cmdState = "running"
  /\ cmdState' = "exited"
  /\ cmdStatus' \in CmdStatuses
  /\ UNCHANGED <<inputs, offMain, k, prev, hostVars, child, ipc, volsLeft, attempts, initLog,
                 exitCode>>

\* cmd.Run() returns in Init: MustRun panics on a status other than 0, else
\* Init goes on to its last line.
Run_wait ==
  /\ child = "init" /\ ipc = "exec cmd: wait" /\ cmdState = "exited"
  /\ IF cmdStatus = 0 THEN ipc' = "os.Exit" /\ UNCHANGED <<child, exitCode>> ELSE Panic
  /\ UNCHANGED <<inputs, offMain, k, prev, hostVars, volsLeft, attempts, initLog, cmdState,
                 cmdStatus>>

\* os.Exit(0)
Init_exit ==
  /\ child = "init" /\ ipc = "os.Exit"
  /\ child' = "exited" /\ ipc' = "exited" /\ exitCode' = 0
  /\ UNCHANGED <<inputs, offMain, k, prev, hostVars, volsLeft, attempts, initLog, cmdState,
                 cmdStatus>>

ContainerInit ==
  \/ Init_mountNs \/ Init_private \/ Init_rootfs \/ Init_dev
  \/ Init_volumes \/ Init_volume \/ Init_volumesDone
  \/ Init_lo \/ waitForVeth
  \/ Init_addr \/ Init_ethUp \/ Init_route \/ Init_hostname
  \/ Init_putOld \/ Init_pivot \/ Init_chdir \/ Init_proc \/ Init_umount
  \/ Init_showIP \/ Run_start \/ cmd_exit \/ Run_wait \/ Init_exit

\* --------------------------------------------------------- specification

Next == RunContainer \/ Rerun \/ unshare_ns \/ unshare_exec \/ ContainerInit

Spec == Init /\ [][Next]_vars

\* A run with one volume and one port mapping in which each process that can
\* take a step of its own does take one in the end: the host, which runs
\* waitForChildNetns without waiting for anything but its 100 ms sleeps; and
\* the container process, whose unshare and Init wait for nothing but the
\* commands they run, up to the user command, which may run for ever.
InitHandshake ==
  /\ Init /\ mode = "run"
  /\ vols = <<"a", ":", "b">> /\ ports = <<"8", ":", "9">>

Handshake ==
  /\ InitHandshake /\ [][Next]_vars
  /\ WF_vars(waitForChildNetns)
  /\ WF_vars(unshare_ns) /\ WF_vars(unshare_exec)
  /\ WF_vars(ContainerInit /\ cmdState # "running")

\* ------------------------------------------------ concurrent invocations

(***************************************************************************)
(* Several `toy-docker run -p 8:9` processes on one host at the same time.  *)
(* Of RunContainer and Init the steps followed here are those that derive   *)
(* or use the identity, the interface names and the address: the identity   *)
(* and the address are computed, the veth pair is created in the host's     *)
(* namespace, the child is started, its end of the pair is moved to it,     *)
(* the child assigns the address, the host appends the port rule and waits. *)
(* The other steps are those of Spec.                                       *)
(***************************************************************************)

\* Process ids at the edges of the decimal widths and of the kernel's range.
WidePids == {9999, 10000, 32768, 99999, 100000, 999999, 1000000, 4194304}

\* The pairs of process ids tried for two invocations at once: neighbours,
\* ids 200 and 400 apart, and ids of seven digits.
PairPids == {27, 28, 227, 427, 1000000, 1000001}

\* The members of a set of numbers, smallest first.
RECURSIVE Ascending(_)
Ascending(S) ==
  IF S = {} THEN <<>>
  ELSE LET m == CHOOSE x \in S : \A y \in S : x <= y
       IN  <<m>> \o Ascending(S \ {m})

\* An invocation that has done nothing yet.
Invocation(pid) ==
  [pid |-> pid, pc |-> "identity", cid |-> <<>>, ip |-> <<>>, vethH |-> <<>>,
   vethC |-> <<>>, moved |-> FALSE, child |-> "none", eth0 |-> NoAddr,
   err |-> "", cause |-> "none"]

\* Processes that run at the same time have different ids.
InitConcurrent ==
  /\ mode = "run" /\ vols = <<>> /\ ports = <<"8", ":", "9">> /\ envKeys = {}
  /\ k = NoBridge /\ prev = <<>> /\ HostStart /\ ChildNone
  /\ ResolvNone /\ RaceNone /\ RefNone
  /\ links = {} /\ chain = <<>>
  /\ \/ \E pid \in (1..MaxPid) \cup WidePids : procs = <<Invocation(pid)>>
     \/ \E S \in SUBSET PairPids :
          /\ Cardinality(S) \in 2..MaxConc
          /\ procs = [n \in 1..Cardinality(S) |-> Invocation(Ascending(S)[n])]

\* A step of invocation i that returns its error: it succeeds only when
\* canOk; a failure is the command's own when canOk, and otherwise a refusal
\* by the kernel of what is asked.
ConcStep(i, from, to, op, canOk, upd) ==
  /\ i \in DOMAIN procs /\ procs[i].pc = from
  /\ \E ok \in BOOLEAN :
       /\ ok => canOk
       /\ procs' = IF ok THEN [procs EXCEPT ![i] = [upd EXCEPT !.pc = to]]
                  ELSE [procs EXCEPT ![i].pc = "failed", ![i].err = op,
                                     ![i].cause = IF canOk THEN "command" ELSE "refused"]

\* Mutant of Conc_identity: the address is the first of the pool that no
\* other invocation holds.
Conc_identity_tracked(i) ==
  /\ i \in DOMAIN procs /\ procs[i].pc = "identity"
  /\ LET cid == Cid(procs[i].pid)
         held == {procs[j].ip : j \in DOMAIN procs}
         free == CHOOSE n \in 0..199 :
                   /\ <<10, 200, 0, 10 + ((procs[i].pid + n) % 200)>> \notin held
                   /\ \A m \in 0..(n - 1) :
                        <<10, 200, 0, 10 + ((procs[i].pid + m) % 200)>> \in held
     IN  procs' = [procs EXCEPT ![i].pc = "create veth", ![i].cid = cid,
                                ![i].ip = <<10, 200, 0, 10 + ((procs[i].pid + free) % 200)>>,
                                ![i].vethH = VethH(cid), ![i].vethC = VethC(cid)]
  /\ UNCHANGED <<offConc, links, chain>>

\* cid, ip, vethH, vethC: computed from os.Getpid() alone; cid[:6] panics on
\* an identity of fewer than 6 characters.
Conc_identity(i) ==
  /\ i \in DOMAIN procs /\ procs[i].pc = "identity"
  /\ LET cid == Cid(procs[i].pid) IN
       procs' = IF CanSlice6(cid)
                THEN [procs EXCEPT ![i].pc = "create veth", ![i].cid = cid,
                                   ![i].ip = AllocateIP(procs[i].pid),
                                   ![i].vethH = VethH(cid), ![i].vethC = VethC(cid)]
                ELSE [procs EXCEPT ![i].pc = "panic", ![i].cid = cid]
  /\ UNCHANGED <<offConc, links, chain>>

\* ip link add <vethH> type veth peer name <vethC>: refused when an
\* interface of either name is in the host's namespace.
Conc_veth(i) ==
  /\ ConcStep(i, "create veth", "Start", "[net] create veth",
              procs[i].vethH \notin links /\ procs[i].vethC \notin links, procs[i])
  /\ links' = IF procs'[i].pc = "Start"
              THEN links \cup {procs[i].vethH, procs[i].vethC} ELSE links
  /\ UNCHANGED <<offConc, chain>>

\* c.Start()
Conc_start(i) ==
  /\ ConcStep(i, "Start", "move veth", "container init", TRUE,
              [procs[i] EXCEPT !.child = "init"])
  /\ UNCHANGED <<offConc, links, chain>>

\* ip link set <vethC> netns <pid>, after the wait for the child's namespace.
Conc_move(i) ==
  /\ ConcStep(i, "move veth", "configurePorts", "[net] move veth to container",
              procs[i].vethC \in links /\ procs[i].child = "init",
              [procs[i] EXCEPT !.moved = TRUE])
  /\ links' = IF procs'[i].pc = "configurePorts" THEN links \ {procs[i].vethC} ELSE links
  /\ UNCHANGED <<offConc, chain>>

\* configurePorts(ip, "8:9"): iptables -A appends, whatever the chain holds.
Conc_ports(i) ==
  /\ ConcStep(i, "configurePorts", "Wait", "[net] add port forward", TRUE, procs[i])
  /\ chain' = IF procs'[i].pc = "Wait"
              THEN Append(chain, DnatRule(procs[i].ip, <<"8">>, <<"9">>)) ELSE chain
  /\ UNCHANGED <<offConc, links>>

\* Init: ip addr add <CIP>/24 dev eth0, in the child's own namespace, once
\* the interface has been moved there and renamed; a failure panics.
Conc_addr(i) ==
  /\ i \in DOMAIN procs /\ procs[i].child = "init" /\ procs[i].moved
  /\ \E ok \in BOOLEAN :
       /\ ok => procs[i].eth0 = NoAddr
       /\ procs' = IF ok THEN [procs EXCEPT ![i].child = "configured",
                                           ![i].eth0 = Cidr(procs[i].ip, 24)]
                  ELSE [procs EXCEPT ![i].child = "panic",
                          ![i].cause = IF procs[i].eth0 = NoAddr THEN "command"
                                       ELSE "refused"]
  /\ UNCHANGED <<offConc, links, chain>>

\* Init: waitForVeth gives up when the host has failed before the move.
Conc_noVeth(i) ==
  /\ i \in DOMAIN procs /\ procs[i].child = "init" /\ ~procs[i].moved /\ procs[i].pc = "failed"
  /\ procs' = [procs EXCEPT ![i].child = "panic"]
  /\ UNCHANGED <<offConc, links, chain>>

\* The user command ends and Init with it.
Conc_exit(i) ==
  /\ i \in DOMAIN procs /\ procs[i].child = "configured"
  /\ procs' = [procs EXCEPT ![i].child = "exited"]
  /\ UNCHANGED <<offConc, links, chain>>

\* return c.Wait()
Conc_wait(i) ==
  /\ i \in DOMAIN procs /\ procs[i].pc = "Wait" /\ procs[i].child \in {"exited", "panic"}
  /\ procs' = IF procs[i].child = "exited" THEN [procs EXCEPT ![i].pc = "done"]
              ELSE [procs EXCEPT ![i].pc = "failed", ![i].err = "exit status",
                                 ![i].cause = "command"]
  /\ UNCHANGED <<offConc, links, chain>>

NextConcurrent ==
  \E i \in 1..MaxConc :
    \/ Conc_identity(i) \/ Conc_veth(i) \/ Conc_start(i) \/ Conc_move(i)
    \/ Conc_ports(i) \/ Conc_addr(i) \/ Conc_noVeth(i) \/ Conc_exit(i)
    \/ Conc_wait(i)

Concurrent == InitConcurrent /\ [][NextConcurrent]_vars

\* ------------------------------------------------------- writeResolvConf

(***************************************************************************)
(* writeResolvConf followed line by line.  A file is the sequence of its    *)
(* lines and a line the sequence of its fields (strings.Fields), each a     *)
(* tuple of characters.                                                     *)
(***************************************************************************)

Nameserver == <<"n", "a", "m", "e", "s", "e", "r", "v", "e", "r">>
Stub == <<"1", "2", "7", ".", "0", ".", "0", ".", "5", "3">>
Loop4 == <<"1", "2", "7", ".", "0", ".", "0", ".", "1">>
Loop6 == <<":", ":", "1">>
Quad9 == <<"9", ".", "9", ".", "9", ".", "9">>

\* publicResolvers := []string{"1.1.1.1", "8.8.8.8"}
publicResolvers == <<<<"1", ".", "1", ".", "1", ".", "1">>, <<"8", ".", "8", ".", "8", ".", "8">>>>

\* The lines tried: nameserver lines for the systemd stub, for ::1, for a
\* resolver of the host's and for each public resolver, a nameserver line
\* without an address, and a line that is not a nameserver line.
ResolvLines ==
  { <<Nameserver, Stub>>, <<Nameserver, Loop6>>, <<Nameserver, Quad9>>,
    <<Nameserver, publicResolvers[1]>>, <<Nameserver, publicResolvers[2]>>,
    <<Nameserver>>, <<<<"s", "e", "a", "r", "c", "h">>, <<"l", "a", "n">>>> }

\* The files tried as /etc/resolv.conf: up to MaxLines lines.
ResolvFiles == UNION {[1..n -> ResolvLines] : n \in 0..MaxLines}

\* The files tried as /run/systemd/resolve/resolv.conf: unreadable or empty
\* (no line), one resolver, a loopback resolver and a public one.
RealFiles ==
  { <<>>, <<<<Nameserver, Quad9>>>>,
    <<<<Nameserver, Loop4>>, <<Nameserver, publicResolvers[2]>>>> }

\* strings.HasPrefix(s, prefix)
HasPrefix(s, prefix) == Len(s) >= Len(prefix) /\ SubSeq(s, 1, Len(prefix)) = prefix

\* bytes.Contains(data, sub), for a sub without blanks or line ends.
Contains(file, sub) ==
  \E l \in 1..Len(file) : \E f \in 1..Len(file[l]) :
    \E at \in 1..(Len(file[l][f]) - Len(sub) + 1) :
      SubSeq(file[l][f], at, at + Len(sub) - 1) = sub

InitResolver ==
  /\ mode = "run" /\ vols = <<>> /\ ports = <<>> /\ envKeys = {}
  /\ k = NoBridge /\ prev = <<>> /\ HostStart /\ ChildNone
  /\ ConcNone /\ RaceNone /\ RefNone
  /\ \E host \in ResolvFiles :
       \E real \in (IF Contains(host, Stub) THEN RealFiles ELSE {<<>>}) :
         rc = [pc |-> "read", host |-> host, real |-> real, data |-> <<>>,
               rest |-> <<>>, filtered |-> <<>>, seen |-> {}, added |-> 0,
               pub |-> <<>>, scanErr |-> FALSE, written |-> <<>>, err |-> ""]

\* os.ReadFile("/etc/resolv.conf"), and the systemd file in its place when
\* the host's names the stub and the systemd file is readable and not empty.
writeResolvConf_read ==
  /\ rc.pc = "read"
  /\ \E ok \in BOOLEAN :
       rc' = IF ~ok THEN [rc EXCEPT !.pc = "returned", !.err = "read host resolv.conf"]
             ELSE LET data == IF Contains(rc.host, Stub) /\ Len(rc.real) > 0
                              THEN rc.real ELSE rc.host
                  IN  [rc EXCEPT !.pc = "scan", !.data = data, !.rest = data]
  /\ UNCHANGED offResolv

\* Mutant of writeResolvConf_scan: an address is written whether or not it
\* has been seen.
writeResolvConf_scan_noSeen ==
  /\ rc.pc = "scan" /\ rc.rest # <<>>
  /\ LET line == Head(rc.rest)
         next == [rc EXCEPT !.rest = Tail(rc.rest)]
     IN  \/ rc' = [rc EXCEPT !.pc = "public", !.scanErr = TRUE, !.pub = publicResolvers]
         \/ rc' = IF line # <<>> /\ HasPrefix(line[1], Nameserver)
                  THEN IF Len(line) < 2 THEN next
                       ELSE IF HasPrefix(line[2], <<"1", "2", "7", ".">>) \/ line[2] = Loop6
                       THEN next
                       ELSE [next EXCEPT !.filtered = Append(@, <<Nameserver, line[2]>>),
                                         !.seen = @ \cup {line[2]}, !.added = @ + 1]
                  ELSE [next EXCEPT !.filtered = Append(@, line)]
  /\ UNCHANGED offResolv

\* One turn of the scanning loop: the scanner gives up on a line it cannot
\* hold, or gives the next line.  A nameserver line without an address or
\* with a loopback address is dropped, one with an address seen before too,
\* another is written anew; any other line is copied.
writeResolvConf_scan ==
  /\ rc.pc = "scan" /\ rc.rest # <<>>
  /\ LET line == Head(rc.rest)
         next == [rc EXCEPT !.rest = Tail(rc.rest)]
     IN  \/ rc' = [rc EXCEPT !.pc = "public", !.scanErr = TRUE, !.pub = publicResolvers]
         \/ rc' = IF line # <<>> /\ HasPrefix(line[1], Nameserver)
                  THEN IF Len(line) < 2 THEN next
                       ELSE IF HasPrefix(line[2], <<"1", "2", "7", ".">>) \/ line[2] = Loop6
                       THEN next
                       ELSE IF line[2] \in rc.seen THEN next
                       ELSE [next EXCEPT !.filtered = Append(@, <<Nameserver, line[2]>>),
                                         !.seen = @ \cup {line[2]}, !.added = @ + 1]
                  ELSE [next EXCEPT !.filtered = Append(@, line)]
  /\ UNCHANGED offResolv

\* The file has been read to its end.
writeResolvConf_scanned ==
  /\ rc.pc = "scan" /\ rc.rest = <<>>
  /\ rc' = [rc EXCEPT !.pc = "public", !.pub = publicResolvers]
  /\ UNCHANGED offResolv

\* One public resolver: written unless seen; before the first address of
\* all is written, what was copied so far is thrown away.
writeResolvConf_public ==
  /\ rc.pc = "public" /\ rc.pub # <<>>
  /\ LET ns == Head(rc.pub)
         next == [rc EXCEPT !.pub = Tail(rc.pub)]
     IN  rc' = IF ns \in rc.seen THEN next
               ELSE [next EXCEPT
                       !.filtered = Append(IF rc.added = 0 /\ Len(rc.filtered) > 0
                                           THEN <<>> ELSE rc.filtered,
                                           <<Nameserver, ns>>),
                       !.seen = @ \cup {ns}, !.added = @ + 1]
  /\ UNCHANGED offResolv

\* sc.Err(), then os.MkdirAll of the rootfs's etc.
writeResolvConf_mkdir ==
  /\ rc.pc = "public" /\ rc.pub = <<>>
  /\ IF rc.scanErr
     THEN rc' = [rc EXCEPT !.pc = "returned", !.err = "scan host resolv.conf"]
     ELSE \E ok \in BOOLEAN :
            rc' = IF ok THEN [rc EXCEPT !.pc = "write"]
                  ELSE [rc EXCEPT !.pc = "returned", !.err = "ensure etc dir"]
  /\ UNCHANGED offResolv

\* os.WriteFile(dst, filtered.Bytes(), 0644)
writeResolvConf_write ==
  /\ rc.pc = "write"
  /\ \E ok \in BOOLEAN :
       rc' = IF ok THEN [rc EXCEPT !.pc = "returned", !.written = rc.filtered]
             ELSE [rc EXCEPT !.pc = "returned", !.err = "write container resolv.conf"]
  /\ UNCHANGED offResolv

writeResolvConf ==
  \/ writeResolvConf_read \/ writeResolvConf_scan \/ writeResolvConf_scanned
  \/ writeResolvConf_public \/ writeResolvConf_mkdir \/ writeResolvConf_write

Resolver == InitResolver /\ [][writeResolvConf]_vars

\* ----------------------------------------------- the race in ensureBridge

\* The host's bridge as ensureBridge leaves it: the device, its address, its
\* state, the forwarding switch and the rules appended.
BridgeAbsent ==
  [brExists |-> FALSE, brAddr |-> "none", brUp |-> FALSE, ipForward |-> FALSE,
   rules |-> <<>>]

\* An invocation that has just entered RunContainer.  absentAtCheck records
\* whether the bridge was absent on the host when the invocation checked.
Racer ==
  [pc |-> "ensureBridge", found |-> FALSE, absentAtCheck |-> FALSE, err |-> "",
   cause |-> "none"]

\* Between 1 and MaxConc invocations on a host without the bridge.  Nothing
\* in RunContainer or ensureBridge takes a lock before the first command.
InitBridgeRace ==
  /\ mode = "run" /\ vols = <<>> /\ ports = <<>> /\ envKeys = {}
  /\ k = NoBridge /\ prev = <<>> /\ HostStart /\ ChildNone
  /\ ConcNone /\ ResolvNone /\ RefNone
  /\ bridge = BridgeAbsent
  /\ \E n \in 1..MaxConc : racers = [i \in 1..n |-> Racer]

\* The existence check of invocation i, with "ip" in the place of desc as in
\* ensureBridge_check: what the program `link` gives does not depend on the
\* bridge.
Race_check(i) ==
  /\ i \in DOMAIN racers /\ racers[i].pc = "ensureBridge"
  /\ \E r \in RunOut("ip", "link", <<"show", bridgeName>>) :
       LET found == ~r.err /\ r.hasName IN
       racers' = [racers EXCEPT ![i].pc = IF found THEN "returned" ELSE "add bridge",
                                ![i].found = found,
                                ![i].absentAtCheck = ~bridge.brExists]
  /\ UNCHANGED <<offRace, bridge>>

\* A step of invocation i that returns its error, as ConcStep: it succeeds
\* only when canOk, and on success the host's bridge becomes upd.
RaceStep(i, from, to, op, canOk, upd) ==
  /\ i \in DOMAIN racers /\ racers[i].pc = from
  /\ \E ok \in BOOLEAN :
       /\ ok => canOk
       /\ racers' = IF ok THEN [racers EXCEPT ![i].pc = to]
                   ELSE [racers EXCEPT ![i].pc = "failed", ![i].err = op,
                                       ![i].cause = IF canOk THEN "command" ELSE "refused"]
       /\ bridge' = IF ok THEN upd ELSE bridge
  /\ UNCHANGED offRace

\* Mutant of Race_add: a device that exists already is taken as the bridge,
\* and ensureBridge returns as if the check had found it.
Race_add_tolerant(i) ==
  IF bridge.brExists
  THEN /\ i \in DOMAIN racers /\ racers[i].pc = "add bridge"
       /\ racers' = [racers EXCEPT ![i].pc = "returned"]
       /\ UNCHANGED <<offRace, bridge>>
  ELSE RaceStep(i, "add bridge", "assign bridge ip", "add bridge",
                TRUE, [bridge EXCEPT !.brExists = TRUE])

\* ip link add toy0 type bridge: the kernel refuses a name that is in use.
Race_add(i) ==
  RaceStep(i, "add bridge", "assign bridge ip", "add bridge",
           ~bridge.brExists, [bridge EXCEPT !.brExists = TRUE])

Race_addr(i) ==
  RaceStep(i, "assign bridge ip", "bring bridge up", "assign bridge ip",
           bridge.brExists /\ bridge.brAddr = "none", [bridge EXCEPT !.brAddr = bridgeCIDR])

Race_up(i) ==
  RaceStep(i, "bring bridge up", "enable ipv4 forwarding", "bring bridge up",
           bridge.brExists, [bridge EXCEPT !.brUp = TRUE])

Race_sysctl(i) ==
  RaceStep(i, "enable ipv4 forwarding", "configure nat", "[net] enable ipv4 forwarding",
           TRUE, [bridge EXCEPT !.ipForward = TRUE])

Race_nat(i) ==
  RaceStep(i, "configure nat", "allow forward from bridge", "[net] configure nat",
           TRUE, [bridge EXCEPT !.rules = Append(@, MasqRule)])

Race_fwdIn(i) ==
  RaceStep(i, "allow forward from bridge", "allow established to bridge",
           "[net] allow forward from bridge",
           TRUE, [bridge EXCEPT !.rules = Append(@, FwdInRule)])

Race_fwdOut(i) ==
  RaceStep(i, "allow established to bridge", "returned",
           "[net] allow established to bridge",
           TRUE, [bridge EXCEPT !.rules = Append(@, FwdOutRule)])

NextBridgeRace ==
  \E i \in 1..MaxConc :
    \/ Race_check(i) \/ Race_add(i) \/ Race_addr(i) \/ Race_up(i)
    \/ Race_sysctl(i) \/ Race_nat(i) \/ Race_fwdIn(i) \/ Race_fwdOut(i)

BridgeRace == InitBridgeRace /\ [][NextBridgeRace]_vars

\* ---------------------------------------------------------------- parseRef

dockerHubRegistry ==
  <<"r", "e", "g", "i", "s", "t", "r", "y", "-", "1", ".",
    "d", "o", "c", "k", "e", "r", ".", "i", "o">>
latest == <<"l", "a", "t", "e", "s", "t">>
library == <<"l", "i", "b", "r", "a", "r", "y", "/">>
localhost == <<"l", "o", "c", "a", "l", "h", "o", "s", "t">>

DigitChars == {"0", "1", "2", "3", "4", "5", "6", "7", "8", "9"}
LetterChars ==
  {"a", "b", "c", "d", "e", "f", "g", "h", "i", "j", "k", "l", "m", "n", "o", "p",
   "q", "r", "s", "t", "u", "v", "w", "x", "y", "z",
   "A", "B", "C", "D", "E", "F", "G", "H", "I", "J", "K", "L", "M", "N", "O", "P",
   "Q", "R", "S", "T", "U", "V", "W", "X", "Y", "Z"}

\* The references tried: every string of at most MaxRefLen characters over a
\* letter, a digit, the three separators, the dot, and a character that no
\* tag may hold.
RefChars == {"u", "2", "-", ":", "/", ".", "@"}
Refs == UNION {[1..n -> RefChars] : n \in 0..MaxRefLen}

\* strings.Contains(s, c) for a one-character c.
ContainsChar(s, c) == \E n \in 1..Len(s) : s[n] = c

\* strings.LastIndex(s, c) for a one-character c: the offset from 0 of the
\* last occurrence, or -1.
LastIndex(s, c) ==
  IF ContainsChar(s, c)
  THEN (CHOOSE n \in 1..Len(s) : s[n] = c /\ \A m \in (n + 1)..Len(s) : s[m] # c) - 1
  ELSE -1

\* strings.Join(parts, sep)
RECURSIVE Join(_, _)
Join(parts, sep) ==
  IF parts = <<>> THEN <<>>
  ELSE IF Len(parts) = 1 THEN parts[1]
  ELSE parts[1] \o sep \o Join(Tail(parts), sep)

\* strings.ReplaceAll(s, old, new) for one-character old and new.
ReplaceAll(s, old, new) == [n \in 1..Len(s) |-> IF s[n] = old THEN new ELSE s[n]]

\* strings.TrimPrefix(s, prefix)
TrimPrefix(s, prefix) ==
  IF HasPrefix(s, prefix) THEN SubSeq(s, Len(prefix) + 1, Len(s)) ELSE s

looksLikeVersionSuffix(s) ==
  IF s = <<>> THEN FALSE
  ELSE IF s[1] \notin DigitChars THEN FALSE
  ELSE \A n \in 1..Len(s) : s[n] \in LetterChars \cup DigitChars \cup {".", "-", "_"}

\* Mutant of splitRef: the shorthand is cut at the first dash.
splitRef_firstDash(ref) ==
  LET colon == LastIndex(ref, ":")
      dash == IF ContainsChar(ref, "-")
              THEN (CHOOSE n \in 1..Len(ref) :
                      ref[n] = "-" /\ \A m \in 1..(n - 1) : ref[m] # "-") - 1
              ELSE -1
      cut(idx) == <<SubSeq(ref, 1, idx), SubSeq(ref, idx + 2, Len(ref))>>
  IN  IF colon # -1 /\ colon > LastIndex(ref, "/") THEN cut(colon)
      ELSE IF /\ dash # -1 /\ ~ContainsChar(ref, "/")
              /\ looksLikeVersionSuffix(SubSeq(ref, dash + 2, Len(ref)))
      THEN cut(dash)
      ELSE <<ref, latest>>

\* splitRef(ref): the pair <<repoPart, tag>>.  ref[:idx] and ref[idx+1:] are
\* what lies before and after the character at offset idx.
splitRef(ref) ==
  LET colon == LastIndex(ref, ":")
      dash == LastIndex(ref, "-")
      cut(idx) == <<SubSeq(ref, 1, idx), SubSeq(ref, idx + 2, Len(ref))>>
  IN  IF colon # -1 /\ colon > LastIndex(ref, "/") THEN cut(colon)
      ELSE IF /\ dash # -1 /\ ~ContainsChar(ref, "/")
              /\ looksLikeVersionSuffix(SubSeq(ref, dash + 2, Len(ref)))
      THEN cut(dash)
      ELSE <<ref, latest>>

\* What parseRef returns: an imageRef and no error, or the zero imageRef with
\* an error.
ImageRef(registry, repo, tag, name) ==
  [err |-> "", Registry |-> registry, Repository |-> repo, Tag |-> tag,
   DisplayName |-> name]
RefError(e) ==
  [err |-> e, Registry |-> <<>>, Repository |-> <<>>, Tag |-> <<>>, DisplayName |-> <<>>]

parseRef(ref) ==
  IF ref = <<>> THEN RefError("image reference is required")
  ELSE
    LET repoPart == splitRef(ref)[1]
        tag == splitRef(ref)[2]
        parts == Split(repoPart, "/")
        named == /\ Len(parts) > 1
                 /\ \/ ContainsChar(parts[1], ".") \/ ContainsChar(parts[1], ":")
                    \/ parts[1] = localhost
        registry == IF named THEN parts[1] ELSE dockerHubRegistry
        repo == IF Len(parts) = 1 THEN library \o parts[1]
                ELSE IF named THEN Join(Tail(parts), <<"/">>)
                ELSE Join(parts, <<"/">>)
        name == IF registry = dockerHubRegistry /\ HasPrefix(repo, library)
                THEN TrimPrefix(repo, library) ELSE repo
    IN  IF repoPart = <<>> THEN RefError("image reference is invalid")
        ELSE ImageRef(registry, repo, tag, ReplaceAll(name, "/", "-") \o <<"-">> \o tag)

InitParseRef ==
  /\ mode = "run" /\ vols = <<>> /\ ports = <<>> /\ envKeys = {}
  /\ k = NoBridge /\ prev = <<>> /\ HostStart /\ ChildNone
  /\ ConcNone /\ ResolvNone /\ RaceNone
  /\ \E ref \in Refs : pref = [pc |-> "call", ref |-> ref, out |-> RefError("")]

\* PullImage's img, err := parseRef(ref)
PullImage_parseRef ==
  /\ pref.pc = "call"
  /\ pref' = [pref EXCEPT !.pc = "returned", !.out = parseRef(pref.ref)]
  /\ UNCHANGED offRef

ParseRef == InitParseRef /\ [][PullImage_parseRef]_vars

\* ------------------------------------------------------- reading the logs

Has(log, op) == \E i \in 1..Len(log) : log[i].op = op
HasOk(log, op) == \E i \in 1..Len(log) : log[i].op = op /\ log[i].ok
HasFailed(log, op) == \E i \in 1..Len(log) : log[i].op = op /\ ~log[i].ok
Count(log, op) == Cardinality({i \in 1..Len(log) : log[i].op = op})

\* The operations and the positions of ensureBridge.
EbOps ==
  {"add bridge", "assign bridge ip", "bring bridge up", "[net] enable ipv4 forwarding",
   "[net] configure nat", "[net] allow forward from bridge",
   "[net] allow established to bridge"}
EbPcs ==
  {"ensureBridge", "add bridge", "assign bridge ip", "bring bridge up",
   "enable ipv4 forwarding", "configure nat", "allow forward from bridge",
   "allow established to bridge"}

\* Whether a string of ';'-separated segments has a segment that is not empty.
HasMapping(s) == \E i \in 1..Len(Split(s, ";")) : Split(s, ";")[i] # <<>>

\* A segment that is neither empty nor exactly two ':'-separated fields.
Malformed(seg) == seg # <<>> /\ Len(Split(seg, ":")) # 2
HasMalformed(s) == \E i \in 1..Len(Split(s, ";")) : Malformed(Split(s, ";")[i])

\* The place of an operation in a list of steps.
Rank(order, step) == CHOOSE i \in 1..Len(order) : order[i] = step

\* ------------------------------------------------------------------ C1

\* C1 (as claimed): when ensureBridge has been called twice in sequence on a host
\* that had no bridge, and the first call returned nil, the second call
\* returns nil too, has issued none of the bridge-create, address, sysctl or
\* iptables commands, and the bridge exists with address 10.200.0.1/24.
C1_SecondEnsureBridgeIsNoOp ==
  (/\ Len(prev) = 1
   /\ prev[1].result.err \notin EbOps
   /\ HasOk(prev[1].log, "[net] allow established to bridge")
   /\ pc \notin EbPcs)
  => /\ result.err \notin EbOps
     /\ \A i \in 1..Len(hostLog) : hostLog[i].op \notin EbOps
     /\ k.brExists /\ k.brAddr = bridgeCIDR

\* ------------------------------------------------------------------ C2

TimedOut == Err("timed out waiting for child netns")

\* C2 (as claimed): waitForChildNetns returns once; it returns nil exactly when a
\* poll observed a difference, and otherwise it returns the timeout error
\* after exactly 50 polls.
C2_WaitTimesOutUnlessDifferent ==
  /\ Count(hostLog, "waitForChildNetns") <= 1
  /\ \A i \in 1..Len(hostLog) : hostLog[i].op = "waitForChildNetns" =>
       IF pollObs = "diff" THEN hostLog[i].ok
       ELSE ~hostLog[i].ok /\ result = TimedOut /\ polls = NetnsRetries

\* C2 (amended): waitForChildNetns reads the host's identity once; if that read
\* fails it returns a read error without any poll.  Otherwise it polls at
\* most 50 times: it returns nil at the first poll that observes a
\* difference (the loop is never at a further turn once a difference was
\* observed), once, and if no poll observes one (failed reads count as not
\* yet) it returns the timeout error after exactly 50 polls.
C2_WaitForChildNetns ==
  /\ polls <= NetnsRetries
  /\ Count(hostLog, "waitForChildNetns") <= 1
  /\ pc = "poll" => pollObs # "diff" /\ ~Has(hostLog, "waitForChildNetns")
  /\ pollObs = "diff" => HasOk(hostLog, "waitForChildNetns")
  /\ \A i \in 1..Len(hostLog) : hostLog[i].op = "waitForChildNetns" =>
       IF hostLog[i].ok
       THEN pollObs = "diff" /\ pc # "poll" /\ result # TimedOut
       ELSE /\ pc = "failed" /\ pollObs # "diff"
            /\ \/ result = TimedOut /\ polls = NetnsRetries
               \/ result = Err("read host netns") /\ polls = 0 /\ pollObs = "none"

\* The wait has timed out after reads that failed: the child was gone.
C2_Witness ==
  /\ result = TimedOut /\ polls = NetnsRetries /\ pollObs = "err"
  /\ HasFailed(hostLog, "waitForChildNetns")

\* ------------------------------------------------------------------ C3

\* C3: waitForVeth attempts the rename at most 50 times; it returns nil at
\* the first attempt that succeeds (the loop is never at a further turn once
\* the interface is eth0); if every attempt fails it returns its error after
\* exactly 50 attempts and Init ends there: no address is assigned, eth0 is
\* not brought up, no route is added.
C3_WaitForVeth ==
  /\ attempts <= VethRetries
  /\ Count(initLog, "waitForVeth") <= 1
  /\ ipc = "waitForVeth" => k.cName # "eth0" /\ ~Has(initLog, "waitForVeth")
  /\ k.cName = "eth0" => HasOk(initLog, "waitForVeth")
  /\ \A i \in 1..Len(initLog) : initLog[i].op = "waitForVeth" =>
       IF initLog[i].ok
       THEN k.cName = "eth0" /\ attempts = 0
       ELSE /\ attempts = VethRetries
            /\ i = Len(initLog) /\ child = "exited" /\ ipc = "panic"
            /\ k.cName # "eth0" /\ k.ethAddr = NoAddr /\ ~k.ethUp /\ k.route = "none"

\* Every one of the 50 attempts failed, in a container the host had started.
C3_Witness ==
  /\ mode = "run" /\ HasFailed(initLog, "waitForVeth") /\ attempts = VethRetries
  /\ child = "exited"

\* ------------------------------------------------------------------ C4

\* C4: the move of the container-side veth is issued only after
\* waitForChildNetns returned nil, which it does only after a poll observed
\* the child in another namespace than the host's; when the wait times out
\* the move is never issued and the run has failed.
C4_MoveOnlyAfterConfirmed ==
  /\ \A i \in 1..Len(hostLog) : hostLog[i].op = "[net] move veth to container" =>
       /\ pollObs = "diff"
       /\ \E j \in 1..(i - 1) : hostLog[j].op = "waitForChildNetns" /\ hostLog[j].ok
  /\ (mode = "run" /\ k.vethC = "child") => pollObs = "diff"
  /\ HasFailed(hostLog, "waitForChildNetns") =>
       /\ ~Has(hostLog, "[net] move veth to container")
       /\ pc = "failed" /\ result.kind = "error" /\ k.vethC # "child"

\* The veth has been moved into the child's namespace.
C4_Witness ==
  /\ mode = "run" /\ k.vethC = "child" /\ HasOk(hostLog, "[net] move veth to container")

\* ------------------------------------------------------------------ C5

\* RunContainer's own steps, in the order of the source; every rule that
\* configurePorts appends (or refuses) belongs to the one step "ports".
RunOrder ==
  <<"prepare containers dir", "create rootfs", "[fs] extract base layer",
    "writeResolvConf", "[net] create veth", "[net] attach veth to bridge",
    "[net] bring veth up", "create ns file", "locate self executable",
    "container init", "waitForChildNetns", "[net] move veth to container",
    "ports", "Wait">>
RunStep(op) ==
  IF op \in {"[net] add port forward", "invalid port mapping"} THEN "ports" ELSE op
RunRank(e) == Rank(RunOrder, RunStep(e.op))
RunLog == SelectSeq(hostLog, LAMBDA e : e.op \notin EbOps \cup {"check bridge"})

\* C5: what RunContainer has issued after ensureBridge is a prefix of: rootfs
\* prepared, veth pair created, attached and up, child spawned, namespace
\* confirmed, veth moved, port rules, wait.  Each operation but the last
\* issued has succeeded, each follows its immediate predecessor (the port
\* rules alone may be several, and are left out only when no mapping was
\* asked for), and none is issued twice.
C5_RunContainerOrder ==
  LET L == RunLog IN
  /\ L # <<>> => RunRank(L[1]) = 1
  /\ \A i \in 1..(Len(L) - 1) :
       /\ L[i].ok
       /\ \/ RunRank(L[i + 1]) = RunRank(L[i]) + 1
          \/ RunStep(L[i].op) = "ports" /\ RunStep(L[i + 1].op) = "ports"
          \/ /\ ~HasMapping(ports)
             /\ L[i].op = "[net] move veth to container" /\ L[i + 1].op = "Wait"

\* A run with a port mapping has gone through every step and returned nil.
C5_Witness ==
  /\ pc = "done" /\ result = Nil /\ HasOk(hostLog, "[net] add port forward")
  /\ HasOk(hostLog, "Wait")

\* ------------------------------------------------------------------ C6

\* Init's steps, in the order of the source; what is done for a volume
\* belongs to the one step "volumes".
InitOrder ==
  <<"[fs] mount namespace", "[fs] mount private", "[fs] mount rootfs(hack)",
    "[fs] mount dev", "volumes", "[net] set loopback up", "waitForVeth",
    "[net] assign IP", "[net] bring eth0 up", "[net] set default route",
    "[net] set hostname", "create put_old", "[fs] pivot_root", "chdir to new root",
    "[fs] mount proc", "[fs] umount old_root", "[net] show IP", "[fs] exec cmd">>
InitStepOf(op) ==
  IF op \in {"mkdir volume", "[fs] mount volume", "index out of range"}
  THEN "volumes" ELSE op
InitRank(e) == Rank(InitOrder, InitStepOf(e.op))

C7_FailureEndsInit ==
  \A i \in 1..Len(initLog) : ~initLog[i].ok => i = Len(initLog) /\ child = "exited"

\* ------------------------------------------------------------------ C8

\* C8 (as claimed): once the user command has been started, Init is no longer a
\* running process of its own: it neither waits on the command nor runs
\* after it.
C8_CommandReplacesInit ==
  cmdState \in {"running", "exited"} => child # "init"

\* ------------------------------------------------------------------ C9

\* C9 (as claimed): with a required key absent from its environment, Init issues
\* no operation at all.
C9_MissingKeyAbortsBeforeStep1 ==
  (child \in {"init", "exited"} /\ Required \ envKeys # {}) => initLog = <<>>

\* ------------------------------------------------------------------ C10

\* C10 (as claimed): with a malformed segment in VOLUMES, no volume is ever bind
\* mounted.
C10_MalformedRejectedBeforeMount ==
  HasMalformed(vols) => ~Has(initLog, "[fs] mount volume")

\* ------------------------------------------------------------ C11, C12

\* The segments of a -p string that are not empty, in their order.
Segments(s) == SelectSeq(Split(s, ";"), LAMBDA p : p # <<>>)

\* How many of them come before the first malformed one.
GoodPrefixLen(segs) ==
  CHOOSE n \in 0..Len(segs) :
    /\ \A i \in 1..n : ~Malformed(segs[i])
    /\ n = Len(segs) \/ Malformed(segs[n + 1])

\* The rules asked for by the segments before the first malformed one (by
\* all of them when none is malformed): tcp/hostPort to ip:containerPort.
ExpectedDnat ==
  LET segs == Segments(ports) IN
  [i \in 1..GoodPrefixLen(segs) |->
     [chain |-> "PREROUTING", target |-> "DNAT", dport |-> Split(segs[i], ":")[1],
      to |-> <<AllocateIP(Getpid), Split(segs[i], ":")[2]>>]]

\* The DNAT rules in the chain, and those of them this invocation appended:
\* the ones after the rules that earlier invocations left behind.
DnatRules == SelectSeq(k.rules, LAMBDA r : r.target = "DNAT")
EarlierForwards ==
  LET F[i \in 0..Len(prev)] ==
        IF i = 0 THEN 0
        ELSE F[i - 1] + Cardinality({j \in 1..Len(prev[i].log) :
                          prev[i].log[j].op = "[net] add port forward" /\ prev[i].log[j].ok})
  IN  F[Len(prev)]
RunDnat == SubSeq(DnatRules, EarlierForwards + 1, Len(DnatRules))

IsPrefix(a, b) == Len(a) <= Len(b) /\ a = SubSeq(b, 1, Len(a))

\* configurePorts has returned nil.
PortsReturnedNil == pc \in {"Wait", "done"} \/ Has(hostLog, "Wait")

\* C11: with every non-empty segment of the -p string well-formed, the rules
\* configurePorts has appended are at every moment the first ones of: one
\* DNAT rule per non-empty segment, in segment order, tcp/hostPort to
\* ip:containerPort, a repeated mapping giving a repeated rule; when it has
\* returned nil they are all of them; with the empty string there is none
\* and the chain holds what it held.
C11_OneRulePerMapping ==
  (mode = "run" /\ ~HasMalformed(ports)) =>
    /\ EarlierForwards <= Len(DnatRules)
    /\ IsPrefix(RunDnat, ExpectedDnat)
    /\ PortsReturnedNil => RunDnat = ExpectedDnat
    /\ ports = <<>> => RunDnat = <<>> /\ ~Has(hostLog, "[net] add port forward")

\* The mapping 8:9 given twice to the process 27, whose address is
\* 10.200.0.37: two equal rules to 10.200.0.37:9.
C11_Witness ==
  /\ pc = "Wait" /\ Getpid = 27
  /\ ports = <<"8", ":", "9", ";", "8", ":", "9">>
  /\ RunDnat = <<DnatRule(<<10, 200, 0, 37>>, <<"8">>, <<"9">>),
                 DnatRule(<<10, 200, 0, 37>>, <<"8">>, <<"9">>)>>

\* C12: configurePorts never returns nil for a -p string with a malformed
\* segment; the rules it has appended are never more than those of the
\* segments before the first malformed one; when it has returned the
\* invalid-mapping error, the segment the error names is that first
\* malformed one, the run has failed there, and the rules of the segments
\* before it are all in the chain (none for it or a later one, none taken
\* back).
C12_FirstMalformedStops ==
  mode = "run" =>
    /\ HasMalformed(ports) => ~PortsReturnedNil /\ IsPrefix(RunDnat, ExpectedDnat)
    /\ Has(hostLog, "invalid port mapping") =>
         /\ HasMalformed(ports)
         /\ pc = "failed" /\ result = Err("invalid port mapping")
         /\ hostLog[Len(hostLog)].op = "invalid port mapping"
         /\ portsLeft # <<>>
         /\ Head(portsLeft) = Segments(ports)[GoodPrefixLen(Segments(ports)) + 1]
         /\ RunDnat = ExpectedDnat
    /\ (Has(hostLog, "invalid port mapping") /\ Len(Segments(ports)) = 1) =>
         RunDnat = <<>>

\* The string "8:9;7": the rule of 8:9 is in the chain and the run has
\* failed on the segment "7".
C12_Witness ==
  /\ ports = <<"8", ":", "9", ";", "7">>
  /\ result = Err("invalid port mapping") /\ Head(portsLeft) = <<"7">>
  /\ Len(RunDnat) = 1

\* ------------------------------------------------------------------ C13

\* C13 (as claimed): when RunContainer has waited for the child and the user
\* command has run to its end, the run has succeeded exactly when the
\* command's status is 0, and a status other than 0 is the status the run
\* reports.
C13_RunResultIsCommandOutcome ==
  (mode = "run" /\ Has(hostLog, "Wait") /\ cmdState = "exited") =>
    /\ (result = Nil) <=> (cmdStatus = 0)
    /\ cmdStatus # 0 => result.kind = "error" /\ result.status = cmdStatus

\* ------------------------------------------------------------------ C14

\* What the host has made: the bridge with its address and state, the
\* forwarding switch, the firewall rules, the veth pair and the files and
\* directories of RunContainer.
HostResources ==
  <<k.brExists, k.brAddr, k.brUp, k.ipForward, k.rules, k.vethH, k.vethC,
    k.fs \cap {"containers dir", "rootfs", "layer", "resolv.conf", "nsfile"}>>

\* The errors RunContainer returns when the operation `op` fails.
ErrorsOf(op) ==
  IF op = "container init" THEN {Err("container init failed")}
  ELSE IF op = "waitForChildNetns" THEN {TimedOut, Err("read host netns")}
  ELSE IF op = "Wait" THEN {ExitError(st) : st \in 1..255}
  ELSE {Err(op)}

\* A failed run: the last operation issued is the one that failed and the
\* error returned is the one of that operation.
C14_FailedAtLast ==
  /\ pc = "failed" =>
       /\ hostLog # <<>> /\ ~hostLog[Len(hostLog)].ok
       /\ result \in ErrorsOf(hostLog[Len(hostLog)].op)
  /\ \A i \in 1..Len(hostLog) :
       (~hostLog[i].ok /\ hostLog[i].op # "check bridge") =>
         i = Len(hostLog) /\ pc = "failed"

\* In a step that fails the run, and in every step taken while the run has
\* failed (until another invocation begins), what the host has made stays
\* as it is; once failed, RunContainer issues nothing more.
C14_NothingUndone ==
  (pc' = "failed") =>
     /\ HostResources' = HostResources
     /\ pc = "failed" => hostLog' = hostLog /\ result' = result

\* C14: if a step of RunContainer fails, the run ends with the error of that
\* step, no later step is issued, and the bridge, the veth pair, the
\* firewall rules, the rootfs directory and the namespace-marker file are
\* left as they were when it failed.
C14_AbortWithoutRollback == []C14_FailedAtLast /\ [][C14_NothingUndone]_vars

\* The move of the veth has failed: the pair, up and attached, the marker
\* file, the rootfs and the bridge are still there, and the child has gone
\* on to its end.
C14_Witness ==
  /\ pc = "failed" /\ result = Err("[net] move veth to container")
  /\ k.vethH = "up" /\ k.vethC = "host" /\ k.brExists
  /\ {"rootfs", "nsfile"} \subseteq k.fs /\ Len(k.rules) >= 3
  /\ child = "exited"

\* ------------------------------------------------------------------ C15

C16_NetworkReadyAtCommand ==
  (mode = "run" /\ cmdState # "none") =>
    /\ k.vethC = "child" /\ k.cName = "eth0"
    /\ k.ethAddr = [addr |-> AllocateIP(Getpid), prefix |-> 24] /\ k.ethUp
    /\ k.route = "10.200.0.1"
    /\ k.hostname = <<"t", "o", "y", "-">> \o Cid(Getpid)
    /\ k.lo

\* The command of the process 27 runs, without volumes or ports, as
\* toy-27-12372 at 10.200.0.37.
C16_Witness ==
  /\ mode = "run" /\ vols = <<>> /\ ports = <<>> /\ cmdState = "running"
  /\ Getpid = 27
  /\ k.ethAddr.addr = <<10, 200, 0, 37>>
  /\ k.hostname = <<"t", "o", "y", "-", "2", "7", "-", "1", "2", "3", "7", "2">>

\* ------------------------------------------------------------------ C17

\* C17: the address an invocation has computed is 10.200.0.(10 + pid mod
\* 200): its last octet lies in 10..209, it is an address of 10.200.0.0/24,
\* and it is neither the bridge's 10.200.0.1 nor the network address nor the
\* broadcast address.
C17_AddressInHostRange ==
  \A i \in DOMAIN procs :
    /\ procs[i].pc \notin {"identity", "panic"} => procs[i].ip # <<>>
    /\ procs[i].ip # <<>> =>
         /\ procs[i].ip = <<10, 200, 0, 10 + (procs[i].pid % 200)>>
         /\ procs[i].ip[4] \in 10..209
         /\ procs[i].ip # <<10, 200, 0, 1>>
         /\ procs[i].ip # <<10, 200, 0, 0>>
         /\ procs[i].ip # <<10, 200, 0, 255>>

\* The process 399 has computed the last address of the pool.
C17_Witness ==
  \E i \in DOMAIN procs : procs[i].pid = 399 /\ procs[i].ip = <<10, 200, 0, 209>>

\* ------------------------------------------------------------------ C18

\* C18: taking the first 6 characters of the identity never fails; the
\* identity an invocation has computed is <pid>-<pid+12345>, its two veth
\* names are "vethh" and "vethc" followed by the first 6 characters of it
\* and are at most 15 characters long; two invocations that run at the same
\* time have different identities.
C18_IdentityAndNames ==
  /\ \A i \in DOMAIN procs :
       /\ procs[i].pc # "panic"
       /\ procs[i].pc # "identity" =>
            /\ procs[i].cid = Digits(procs[i].pid) \o <<"-">> \o Digits(procs[i].pid + 12345)
            /\ Len(procs[i].cid) >= 6
            /\ procs[i].vethH = <<"v", "e", "t", "h", "h">> \o SubSeq(procs[i].cid, 1, 6)
            /\ procs[i].vethC = <<"v", "e", "t", "h", "c">> \o SubSeq(procs[i].cid, 1, 6)
            /\ Len(procs[i].vethH) <= 15 /\ Len(procs[i].vethC) <= 15
  /\ \A i \in DOMAIN procs, j \in DOMAIN procs :
       (i # j /\ procs[i].pc # "identity" /\ procs[j].pc # "identity") =>
         procs[i].cid # procs[j].cid

\* The processes 1000000 and 1000001 have identities that differ (after
\* their first 6 characters).
C18_Witness ==
  /\ Len(procs) = 2 /\ procs[1].pid = 1000000 /\ procs[2].pid = 1000001
  /\ procs[1].cid # <<>> /\ procs[2].cid # <<>> /\ procs[1].cid # procs[2].cid
  /\ SubSeq(procs[1].cid, 1, 6) = SubSeq(procs[2].cid, 1, 6)

\* ------------------------------------------------------------------ C20

\* Two invocations whose process ids are congruent modulo 200 hold the same
\* address, and nothing either of them asks for is refused.
C20_SameAddress ==
  \A i \in DOMAIN procs, j \in DOMAIN procs :
    (/\ i # j /\ procs[i].ip # <<>> /\ procs[j].ip # <<>>
     /\ procs[i].pid % 200 = procs[j].pid % 200) =>
       /\ procs[i].ip = procs[j].ip
       /\ procs[i].cause # "refused" /\ procs[j].cause # "refused"

\* The step in which an invocation computes its address leaves what the
\* invocations share as it is, and the address does not depend on it.
C20_NothingReserved ==
  \A i \in DOMAIN procs :
    (procs[i].ip = <<>> /\ procs'[i].ip # <<>>) =>
      /\ links' = links /\ chain' = chain
      /\ procs'[i].ip = <<10, 200, 0, 10 + (procs[i].pid % 200)>>
      /\ \A j \in DOMAIN procs : j # i => procs'[j] = procs[j]

\* C20: the allocation reserves and records nothing; two invocations that
\* run at the same time and whose process ids are congruent modulo 200
\* compute the same address, and neither is refused anything because of it.
C20_CollisionUndetected == []C20_SameAddress /\ [][C20_NothingReserved]_vars

\* The processes 27 and 227 have both run to their end at 10.200.0.37, each
\* with its rule to 10.200.0.37:9 in the chain.
C20_Witness ==
  /\ Len(procs) = 2 /\ procs[1].pid = 27 /\ procs[2].pid = 227
  /\ procs[1].pc = "done" /\ procs[2].pc = "done"
  /\ procs[1].eth0 = [addr |-> <<10, 200, 0, 37>>, prefix |-> 24]
  /\ procs[2].eth0 = procs[1].eth0
  /\ chain = <<DnatRule(<<10, 200, 0, 37>>, <<"8">>, <<"9">>),
               DnatRule(<<10, 200, 0, 37>>, <<"8">>, <<"9">>)>>

\* ------------------------------------------------------------------ C19

\* The addresses of the nameserver lines of a file, in their order.
RECURSIVE NameserversOf(_)
NameserversOf(file) ==
  IF file = <<>> THEN <<>>
  ELSE LET line == Head(file)
       IN  (IF Len(line) >= 2 /\ HasPrefix(line[1], Nameserver) THEN <<line[2]>> ELSE <<>>)
           \o NameserversOf(Tail(file))

\* An address that starts with "127." or is "::1".
Loopback(ns) == HasPrefix(ns, <<"1", "2", "7", ".">>) \/ ns = <<":", ":", "1">>

\* The first occurrences of the members of a sequence, in their order.
RECURSIVE Distinct(_)
Distinct(q) ==
  IF q = <<>> THEN <<>>
  ELSE LET front == Distinct(SubSeq(q, 1, Len(q) - 1))
           last == q[Len(q)]
       IN  IF \E i \in 1..Len(front) : front[i] = last THEN front ELSE Append(front, last)

\* C19: the configuration writeResolvConf has written names no loopback
\* resolver and no resolver twice; its resolvers are those of the host's
\* list that are not loopback, each once and in the order of their first
\* occurrence, followed by those of 1.1.1.1 and 8.8.8.8 (in this order)
\* that are not among them; so both public resolvers are always there.
C19_ResolvConfWritten ==
  (rc.pc = "returned" /\ rc.err = "") =>
    LET out == NameserversOf(rc.written)
        kept == Distinct(SelectSeq(NameserversOf(rc.data), LAMBDA ns : ~Loopback(ns)))
        public == <<<<"1", ".", "1", ".", "1", ".", "1">>, <<"8", ".", "8", ".", "8", ".", "8">>>>
        isKept(ns) == \E i \in 1..Len(kept) : kept[i] = ns
    IN  /\ \A i \in 1..Len(out) : ~Loopback(out[i])
        /\ \A i \in 1..Len(out), j \in 1..Len(out) : out[i] = out[j] => i = j
        /\ out = kept \o SelectSeq(public, LAMBDA ns : ~isKept(ns))
        /\ \A p \in 1..2 : \E i \in 1..Len(out) : out[i] = public[p]
        /\ \A i \in 1..Len(rc.written) : rc.written[i][1] = Nameserver => Len(rc.written[i]) = 2

\* The host's list is the stub, 8.8.8.8 and 9.9.9.9 (no systemd file): the
\* configuration written names 8.8.8.8, 9.9.9.9 and 1.1.1.1, in this order.
C19_Witness ==
  /\ rc.pc = "returned" /\ rc.err = ""
  /\ rc.host = <<<<Nameserver, Stub>>, <<Nameserver, <<"8", ".", "8", ".", "8", ".", "8">>>>, <<Nameserver, Quad9>>>>
  /\ rc.written = <<<<Nameserver, <<"8", ".", "8", ".", "8", ".", "8">>>>, <<Nameserver, Quad9>>,
                    <<Nameserver, <<"1", ".", "1", ".", "1", ".", "1">>>>>>

\* ------------------------------------------------------------------ C21

\* Invocation i has issued `ip link add toy0 type bridge`.
AttemptedCreate(i) ==
  /\ ~racers[i].found
  /\ racers[i].pc \notin {"ensureBridge", "add bridge"}

FailedOnCreate(i) == racers[i].pc = "failed" /\ racers[i].err = "add bridge"

Installed(rule) == Cardinality({n \in DOMAIN bridge.rules : bridge.rules[n] = rule})

RulesRepeated == \E rule \in {MasqRule, FwdInRule, FwdOutRule} : Installed(rule) > 1

\* C21: of two invocations that run at the same time on a host without the
\* bridge and have both attempted to create it, one has failed its run on the
\* bridge-create step, or the bridge's rules are installed more than once.
C21_BridgeRace ==
  \A i \in DOMAIN racers : \A j \in DOMAIN racers :
    (i # j /\ AttemptedCreate(i) /\ AttemptedCreate(j))
      => (FailedOnCreate(i) \/ FailedOnCreate(j) \/ RulesRepeated)

\* C21 witness: two invocations both checked while the bridge was absent,
\* both attempted to create it, one created it and returned from ensureBridge,
\* and the other was refused and failed on the bridge-create step.
C21_Witness ==
  \E i \in DOMAIN racers : \E j \in DOMAIN racers :
    /\ i # j
    /\ racers[i].absentAtCheck /\ racers[j].absentAtCheck
    /\ AttemptedCreate(i) /\ racers[i].pc = "returned"
    /\ FailedOnCreate(j) /\ racers[j].cause = "refused"
    /\ bridge.brExists /\ ~RulesRepeated

\* ------------------------------------------------------------------ C22

\* The ways to read the reference parsed as `<repo>:<tag>`: one for each colon.
ColonCuts ==
  {[repo |-> SubSeq(pref.ref, 1, n - 1), tag |-> SubSeq(pref.ref, n + 1, Len(pref.ref))]
     : n \in {m \in 1..Len(pref.ref) : pref.ref[m] = ":"}}

\* A repository name without '/': it is not empty and holds no colon either.
PlainRepo(repo) ==
  repo # <<>> /\ ~ContainsChar(repo, "/") /\ ~ContainsChar(repo, ":")

\* A tag that starts with a digit: what follows is letters, digits, dots,
\* underscores and dashes, the characters a tag may hold.
DigitTag(tag) ==
  /\ tag # <<>> /\ tag[1] \in DigitChars
  /\ \A n \in 1..Len(tag) : tag[n] \in LetterChars \cup DigitChars \cup {".", "_", "-"}

\* parseRef gave for `<repo>:<tag>` what it gives for `<repo>-<tag>`, and that
\* is the Docker Hub image library/<repo> with the tag and the name <repo>-<tag>.
ShorthandAgrees(repo, tag) ==
  /\ pref.out = parseRef(repo \o <<"-">> \o tag)
  /\ pref.out = ImageRef(dockerHubRegistry, library \o repo, tag, repo \o <<"-">> \o tag)

\* A name without a colon whose part after the last dash does not start with
\* a digit is not split and gets the tag latest.
NameNotSplit ==
  LET suffix == SubSeq(pref.ref, LastIndex(pref.ref, "-") + 2, Len(pref.ref)) IN
  (/\ ~ContainsChar(pref.ref, ":") /\ ContainsChar(pref.ref, "-")
   /\ (suffix = <<>> \/ suffix[1] \notin DigitChars))
    => /\ splitRef(pref.ref) = <<pref.ref, latest>>
       /\ pref.out.err = "" /\ pref.out.Tag = latest

EbOrder ==
  <<"check bridge", "add bridge", "assign bridge ip", "bring bridge up",
    "[net] enable ipv4 forwarding", "[net] configure nat",
    "[net] allow forward from bridge", "[net] allow established to bridge">>
EbLog == SelectSeq(hostLog, LAMBDA e : e.op \in EbOps \cup {"check bridge"})

\* ensureBridge has returned nil to RunContainer.
EbReturnedNil ==
  /\ mode = "run" /\ Has(hostLog, "check bridge")
  /\ pc \notin EbPcs
  /\ ~(pc = "failed" /\ result.err \in EbOps)

\* C23: what ensureBridge has issued on finding no bridge is the first
\* operations of: create, address, up, forwarding, masquerade, forward-accept
\* in, forward-accept out, each issued once; an operation that failed is the
\* last one of the run and its error is what the run returns; and when
\* ensureBridge has returned nil the bridge exists with 10.200.0.1/24, is up,
\* forwarding is enabled and the three rules are installed.
C23_EnsureBridgeOrder ==
  LET L == EbLog IN
  /\ \A i \in 1..Len(L) : L[i].op = EbOrder[i]
  /\ \A i \in 2..Len(hostLog) :
       (hostLog[i].op \in EbOps /\ ~hostLog[i].ok)
         => i = Len(hostLog) /\ pc = "failed" /\ result = Err(hostLog[i].op)
  /\ \A i \in 2..(Len(L) - 1) : L[i].ok
  /\ EbReturnedNil =>
       /\ Len(L) = Len(EbOrder) /\ L[Len(L)].ok
       /\ k.brExists /\ k.brAddr = bridgeCIDR /\ k.brUp /\ k.ipForward
       /\ \A rule \in {MasqRule, FwdInRule, FwdOutRule} :
            \E n \in 1..Len(k.rules) : k.rules[n] = rule

\* C23 witness: ensureBridge found no bridge, issued its seven operations and
\* returned nil, and RunContainer goes on.
C23_Witness ==
  /\ EbReturnedNil /\ pc = "create rootfs"
  /\ ~EbLog[1].ok /\ Len(EbLog) = 8
  /\ HasOk(hostLog, "[net] allow established to bridge")

\* ------------------------------------------------------------------ C24

\* Where the two endpoints are and what the log says of them, in a run: the
\* container-side endpoint is nowhere before the pair is created, and then in
\* the host's namespace or in the child's; it exists as soon as the child
\* does; it is in the child's namespace exactly when the one move has
\* succeeded; it is called eth0 only there, after the one rename; the
\* host-side endpoint, once attached, is in the host's namespace on the bridge.
C24_OneNamespace ==
  mode = "run" =>
    /\ k.vethC \in {"none", "host", "child"}
    /\ k.vethC = "none" <=> ~HasOk(hostLog, "[net] create veth")
    /\ child # "none" => k.vethC # "none" /\ k.vethH = "up"
    /\ k.vethC = "child" <=> HasOk(hostLog, "[net] move veth to container")
    /\ Count(hostLog, "[net] create veth") <= 1
    /\ Count(hostLog, "[net] move veth to container") <= 1
    /\ Count(initLog, "waitForVeth") <= 1
    /\ k.cName = "eth0" <=> HasOk(initLog, "waitForVeth")
    /\ k.cName = "eth0" => k.vethC = "child"
    /\ HasOk(hostLog, "[net] attach veth to bridge") =>
         k.vethH \in {"attached", "up"} /\ k.brExists

\* In a step of a run: the container-side endpoint changes place only by
\* its creation in the host's namespace, before the child is spawned, and by
\* the move from there to the child's; it changes name only by the rename
\* to eth0 in the child's namespace; the attached host-side endpoint stays.
C24_EndpointSteps ==
  (mode = "run" /\ pc' # "ensureBridge") =>
    /\ k'.vethC # k.vethC =>
         \/ k.vethC = "none" /\ k'.vethC = "host" /\ child = "none"
         \/ k.vethC = "host" /\ k'.vethC = "child" /\ ChildAlive
    /\ k'.cName # k.cName =>
         \/ k.cName = "none" /\ k'.cName = "vethc" /\ k'.vethC = "host"
         \/ k.cName = "vethc" /\ k'.cName = "eth0" /\ k.vethC = "child" /\ child = "init"
    /\ k.vethH \in {"attached", "up"} => k'.vethH \in {"attached", "up"}

\* C24: the container-side veth endpoint is at every moment in one network
\* namespace; it is created in the host's before the child is spawned, moved
\* at most once, from the host's to the child's, and renamed to eth0 at most
\* once, only inside the child's; the host-side endpoint stays in the host's
\* namespace attached to the bridge for the whole run.
C24_VethLifecycle == []C24_OneNamespace /\ [][C24_EndpointSteps]_vars

\* C24 witness: the endpoint was created, moved and renamed, the run is at
\* its wait, and the host-side endpoint is up on the bridge.
C24_Witness ==
  /\ mode = "run" /\ pc = "Wait"
  /\ k.vethC = "child" /\ k.cName = "eth0" /\ k.vethH = "up"
  /\ HasOk(hostLog, "[net] move veth to container") /\ HasOk(initLog, "waitForVeth")

\* ------------------------------------------------------------------ C25

\* The host is in waitForChildNetns; the container process is in waitForVeth.
InNetnsWait == mode = "run" /\ pc \in {"waitForChildNetns", "poll"}
InVethWait == child = "init" /\ ipc = "waitForVeth"

\* The host has returned an error without having moved the veth, and the
\* container process it started is still there.
AbortedBeforeMove ==
  /\ mode = "run" /\ pc = "failed" /\ k.vethC # "child" /\ ChildAlive

\* Neither counter passes its budget, and a container process whose host
\* has aborted before the move never gets past waitForVeth.
C25_Bounded ==
  /\ polls <= NetnsRetries /\ attempts <= VethRetries
  /\ (mode = "run" /\ pc = "failed" /\ k.vethC # "child") =>
       /\ ~HasOk(initLog, "waitForVeth")
       /\ HasFailed(initLog, "waitForVeth") =>
            attempts = VethRetries /\ child = "exited" /\ exitCode = PanicExit

\* C25: neither wait goes on for ever.  The host's namespace wait ends, in
\* success or timeout, after at most 50 polls, and the child's veth wait
\* ends, in success or timeout, after at most 50 rename attempts; when the
\* host has aborted before moving the veth the container process ends, and
\* once it is in waitForVeth it ends with the veth-timeout failure.
C25_NoWaitForEver ==
  /\ []C25_Bounded
  /\ InNetnsWait ~> ~InNetnsWait
  /\ InVethWait ~> ~InVethWait
  /\ AbortedBeforeMove ~> (child = "exited")
  /\ (AbortedBeforeMove /\ InVethWait)
       ~> (child = "exited" /\ HasFailed(initLog, "waitForVeth") /\ attempts = VethRetries)

\* C25 witness: the host gave up after 50 polls without moving the veth, and
\* the container process, which got to waitForVeth all the same, ended
\* after 50 rename attempts.
C25_Witness ==
  /\ mode = "run" /\ result = TimedOut /\ polls = NetnsRetries /\ k.vethC = "host"
  /\ child = "exited" /\ HasFailed(initLog, "waitForVeth") /\ attempts = VethRetries

\* ------------------------------------------------------------------ C26

\* C26: when c.Start has failed, RunContainer has returned the launch error
\* and issued nothing after it: no poll of a child namespace was made, the
\* veth is where it was created, no port rule is installed, nothing was
\* waited for, and there is no container process.
C26_LaunchFailureEndsRun ==
  HasFailed(hostLog, "container init") =>
    /\ pc = "failed" /\ result = Err("container init failed")
    /\ hostLog[Len(hostLog)].op = "container init"
    /\ polls = 0 /\ pollObs = "none"
    /\ k.vethC = "host" /\ k.cName = "vethc"
    /\ \A n \in 1..Len(k.rules) : k.rules[n].target # "DNAT"
    /\ ~Has(hostLog, "waitForChildNetns") /\ ~Has(hostLog, "[net] move veth to container")
    /\ ~Has(hostLog, "[net] add port forward") /\ ~Has(hostLog, "Wait")
    /\ child = "none" /\ initLog = <<>>

\* C26 witness: c.Start failed in a run that asked for a port mapping, after
\* the veth pair was made.
C26_Witness ==
  /\ HasFailed(hostLog, "container init") /\ pc = "failed"
  /\ HasMapping(ports) /\ k.vethH = "up" /\ k.vethC = "host"

\* ------------------------------------------------------------------ C27

\* C27 (as claimed): whenever RunContainer has returned after c.Start
\* succeeded, with nil or with the error of a later step, the container
\* process has ended.
C27_ChildEndedAtReturn ==
  (mode = "run" /\ pc \in {"done", "failed"} /\ HasOk(hostLog, "container init"))
    => child = "exited"

\* ------------------------------------------------------------------ C28

\* The host has moved the container-side veth into the child's namespace.
Moved == HasOk(hostLog, "[net] move veth to container") /\ k.vethC = "child"

\* C28: in a run, the rename to eth0 has succeeded only after the host's
\* move of the veth, and the address, the link-up and the default route have
\* been issued only after that rename; so whatever eth0 has of address, state
\* and route, and whenever the user command runs, eth0 is the endpoint the
\* host has moved.
C28_ConfiguredAfterMove ==
  mode = "run" =>
    /\ HasOk(initLog, "waitForVeth") => Moved
    /\ k.cName = "eth0" => Moved
    /\ \A op \in {"[net] assign IP", "[net] bring eth0 up", "[net] set default route"} :
         Has(initLog, op) => Moved /\ HasOk(initLog, "waitForVeth") /\ k.cName = "eth0"
    /\ (k.ethAddr # NoAddr \/ k.ethUp \/ k.route # "none") => Moved /\ k.cName = "eth0"
    /\ cmdState # "none" => Moved /\ k.cName = "eth0"

\* C28 witness: the child has set the default route on the endpoint the host
\* has moved, while the host is still at its port rules.
C28_Witness ==
  /\ mode = "run" /\ Moved /\ pc = "ports loop"
  /\ HasOk(initLog, "[net] set default route") /\ k.route = gateway

\* ------------------------------------------------------------------ C29

\* C29 (as claimed): two invocations that run at the same time with
\* different process ids and have derived their veth names have different
\* host-side names and different container-side names.
C29_VethNamesUnique ==
  \A i \in DOMAIN procs : \A j \in DOMAIN procs :
    (/\ procs[i].pid # procs[j].pid
     /\ procs[i].vethH # <<>> /\ procs[j].vethH # <<>>)
      => /\ procs[i].vethH # procs[j].vethH
         /\ procs[i].vethC # procs[j].vethC


====
